---------------------------- MODULE Spec2Model ----------------------------
(***************************************************************************)
(* Model of the editing engine of the writer app: the document parser      *)
(* (app/components/DocumentAST.ts) and the key handler with its undo/redo  *)
(* history (app/components/Editor.tsx).                                    *)
(*                                                                         *)
(* A text is a sequence of one-character strings, offsets are 0-based as   *)
(* in the source (text[i] of the source is text[i+1] here).  One step of   *)
(* the model is one key event: the handler runs to completion and React    *)
(* re-renders, so every ref of the component equals its state again when   *)
(* the next key event is delivered.  Time is read only by saveHistory, as   *)
(* Date.now() - lastEditTimeRef.current; that difference is an input of    *)
(* the handlers that call it.                                              *)
(***************************************************************************)
EXTENDS Integers, Sequences, FiniteSets, TLC

(***************************************************************************)
(* Program constants                                                       *)
(***************************************************************************)
BATCH_THRESHOLD == 500

MAX_HISTORY == 100

NL == "\n"

EmDash == "emdash"

\* the character class of WORD_BOUNDARY / WORD_SEPARATORS: [ ,;.?!\n—()]
WORD_BOUNDARY == {" ", ",", ";", ".", "?", "!", NL, EmDash, "(", ")"}

\* the character class of SENTENCE_END: [.?!]
SENTENCE_END == {".", "?", "!"}

\* the characters of the model's alphabet matched by /[\s\n]/
WhiteSpace == {" ", NL, "\t"}

\* variant of AlphaNum that matches no letter
AlphaNum_digitsOnly == {}

\* the characters matched by /[a-zA-Z0-9]/ among those the model types
AlphaNum == {"a", "b", "c", "x", "t", "w", "o"}

(***************************************************************************)
(* Small helpers: JavaScript's slice, Math.min, Math.max                   *)
(***************************************************************************)
Min(a, b) == IF a <= b THEN a ELSE b

Max(a, b) == IF a >= b THEN a ELSE b

SetMin(S) == CHOOSE x \in S : \A y \in S : x <= y

SetMax(S) == CHOOSE x \in S : \A y \in S : x >= y

\* text.slice(a, b) for 0 <= a, b; text.slice(a) is Slice(text, a, Len(text))
Slice(t, a, b) == SubSeq(t, Min(a, Len(t)) + 1, Min(b, Len(t)))

\* text[i] of the source; "" stands for undefined (out of range)
At(t, i) == IF i >= 0 /\ i < Len(t) THEN t[i + 1] ELSE ""

(***************************************************************************)
(* DocumentAST.ts                                                          *)
(***************************************************************************)
TokText(text, tok) == Slice(text, tok.charStart, tok.charEnd)

\* end (exclusive) of the maximal run of one character class starting at i
RunEnd(text, i) ==
  SetMin({j \in (i + 1)..Len(text) :
            j = Len(text)
            \/ (At(text, j) \in WORD_BOUNDARY) # (At(text, i) \in WORD_BOUNDARY)})

RECURSIVE TokensFrom(_, _)
TokensFrom(text, i) ==
  IF i >= Len(text) THEN <<>>
  ELSE LET j == RunEnd(text, i)
       IN  <<[type |-> IF At(text, i) \in WORD_BOUNDARY THEN "separator" ELSE "word",
              charStart |-> i, charEnd |-> j]>> \o TokensFrom(text, j)

tokenize(text) == TokensFrom(text, 0)

\* does the separator token number i (1-based) of tokens close a sentence
ClosesSentence(tokens, text, i) ==
  LET token == tokens[i]
      tt == TokText(text, token)
      endsWithSentenceEnd == \E k \in 1..Len(tt) : tt[k] \in SENTENCE_END
      isEndOfText == i = Len(tokens)
      nextIsSpaceOrNewline ==
        ~isEndOfText /\ ((\E k \in 1..Len(tt) : tt[k] \in {" ", NL})
                         \/ tt[Len(tt)] \in WhiteSpace)
  IN  token.type = "separator"
      /\ endsWithSentenceEnd
      /\ (isEndOfText \/ nextIsSpaceOrNewline \/ Len(tt) > 1)

\* charEnd of the sentence closed by token: just after the last occurrence
\* of the first terminal character found in the token
SentenceEndOf(text, token) ==
  LET tt == TokText(text, token)
      first == SetMin({k \in 1..Len(tt) : tt[k] \in SENTENCE_END})
      punctIndex == SetMax({k \in 1..Len(tt) : tt[k] = tt[first]}) - 1
  IN  token.charStart + punctIndex + 1

RECURSIVE SentencesFrom(_, _, _, _, _, _)
SentencesFrom(tokens, text, i, currentTokens, sentenceStart, sentenceIndex) ==
  IF i > Len(tokens)
  THEN IF Len(currentTokens) > 0
       THEN <<[index |-> sentenceIndex, tokens |-> currentTokens,
               charStart |-> sentenceStart, charEnd |-> Len(text)]>>
       ELSE <<>>
  ELSE LET cur == Append(currentTokens, tokens[i])
       IN  IF ClosesSentence(tokens, text, i)
           THEN <<[index |-> sentenceIndex, tokens |-> cur,
                   charStart |-> sentenceStart,
                   charEnd |-> SentenceEndOf(text, tokens[i])]>>
                \o SentencesFrom(tokens, text, i + 1, <<>>,
                                 tokens[i].charEnd, sentenceIndex + 1)
           ELSE SentencesFrom(tokens, text, i + 1, cur, sentenceStart, sentenceIndex)

buildSentences(tokens, text) == SentencesFrom(tokens, text, 1, <<>>, 0, 0)

parseDocument(text) ==
  LET tokens == tokenize(text)
  IN  [text |-> text,
       sentences |-> buildSentences(tokens, text),
       words |-> SelectSeq(tokens, LAMBDA t : t.type = "word")]

\* index of the sentence at pos, -1 for null
getSentenceAtPosition(ast, pos) ==
  LET n == Len(ast.sentences)
      hit(k) == LET s == ast.sentences[k]
                IN  (pos >= s.charStart /\ pos < s.charEnd)
                    \/ (pos >= s.charEnd /\ k < n /\ ast.sentences[k + 1].charStart > pos)
      hits == {k \in 1..n : hit(k)}
  IN  IF hits # {} THEN ast.sentences[SetMin(hits)].index
      ELSE IF pos >= Len(ast.text) /\ n > 0 THEN ast.sentences[n].index
      ELSE IF n > 0 THEN ast.sentences[1].index
      ELSE -1

getSentenceIndexAtPosition(ast, pos) ==
  LET s == getSentenceAtPosition(ast, pos)
  IN  IF s = -1 THEN 0 ELSE s

getWordIndexAtPosition(ast, pos) ==
  LET n == Len(ast.words)
      stop == {i \in 1..n : (pos >= ast.words[i].charStart /\ pos <= ast.words[i].charEnd)
                            \/ pos < ast.words[i].charStart}
  IN  IF stop # {} THEN Max(0, SetMin(stop) - 1) ELSE Max(0, n - 1)

getWordSelectionRange(ast, selection) ==
  LET minIdx == Min(selection.start, selection.end)
      maxIdx == Max(selection.start, selection.end)
  IN  IF minIdx < 0 \/ maxIdx >= Len(ast.words)
      THEN [start |-> 0, end |-> 0]
      ELSE [start |-> ast.words[minIdx + 1].charStart,
            end |-> ast.words[maxIdx + 1].charEnd]

getSentenceSelectionRange(ast, selection) ==
  LET minIdx == Min(selection.start, selection.end)
      maxIdx == Max(selection.start, selection.end)
  IN  IF minIdx < 0 \/ maxIdx >= Len(ast.sentences)
      THEN [start |-> 0, end |-> Len(ast.text)]
      ELSE [start |-> ast.sentences[minIdx + 1].charStart,
            end |-> ast.sentences[maxIdx + 1].charEnd]

(***************************************************************************)
(* Editor.tsx: pure helpers                                                *)
(***************************************************************************)
IsBoundary(text, i) == At(text, i) \in WORD_BOUNDARY

\* while (i < text.length && P(text[i])) i++
RECURSIVE SkipRight(_, _, _)
SkipRight(text, i, sep) ==
  IF i < Len(text) /\ IsBoundary(text, i) = sep THEN SkipRight(text, i + 1, sep) ELSE i

\* while (i >= 0 && P(text[i])) i--
RECURSIVE SkipLeft(_, _, _)
SkipLeft(text, i, sep) ==
  IF i >= 0 /\ IsBoundary(text, i) = sep THEN SkipLeft(text, i - 1, sep) ELSE i

findWordBoundary(pos, text, direction) ==
  LET i == IF direction > 0
           THEN SkipRight(text, SkipRight(text, pos, FALSE), TRUE)
           ELSE SkipLeft(text, SkipLeft(text, pos - 1, TRUE), FALSE) + 1
  IN  Max(0, Min(Len(text), i))

findSentenceBoundary(pos, text, direction) ==
  IF direction > 0
  THEN LET ends == {i \in pos..(Len(text) - 1) :
                      At(text, i) \in SENTENCE_END
                      /\ (i + 1 >= Len(text) \/ At(text, i + 1) \in WhiteSpace)}
       IN  IF ends # {} THEN Min(Len(text), SetMin(ends) + 2) ELSE Len(text)
  ELSE LET RECURSIVE SkipSpace(_)
           SkipSpace(i) == IF i >= 0 /\ At(text, i) \in WhiteSpace
                           THEN SkipSpace(i - 1) ELSE i
           i1 == SkipSpace(pos - 1)
           i2 == IF i1 >= 0 /\ At(text, i1) \in SENTENCE_END THEN i1 - 1 ELSE i1
           ends == {i \in 0..i2 : At(text, i) \in SENTENCE_END
                                  /\ i + 1 < Len(text)
                                  /\ At(text, i + 1) \in WhiteSpace}
       IN  IF ends # {} THEN SetMax(ends) + 2 ELSE 0

getLineInfo(pos, text) ==
  LET lineStart == SetMin({s \in 0..pos : \A k \in s..(pos - 1) : At(text, k) # NL})
      lineEnd == SetMax({e \in pos..Len(text) : \A k \in pos..(e - 1) : At(text, k) # NL})
  IN  [lineStart |-> lineStart, lineEnd |-> lineEnd, column |-> pos - lineStart]

moveCursorVertically(pos, text, direction) ==
  LET info == getLineInfo(pos, text)
  IN  IF direction < 0
      THEN IF info.lineStart = 0 THEN 0
           ELSE LET prevLineEnd == info.lineStart - 1
                    prevLineStart == getLineInfo(prevLineEnd, text).lineStart
                IN  prevLineStart + Min(info.column, prevLineEnd - prevLineStart)
      ELSE IF info.lineEnd >= Len(text) THEN Len(text)
           ELSE LET nextLineStart == info.lineEnd + 1
                    nextLineEnd == getLineInfo(nextLineStart, text).lineEnd
                IN  nextLineStart + Min(info.column, nextLineEnd - nextLineStart)

NullRange == [start |-> -1, end |-> -1]

\* variant of adjustRange that moves the end of a range cut by a deletion
\* by the whole deleted length instead of to the deletion point
adjustRange_endByDelta(range, changePos, delta) ==
  IF delta > 0
  THEN IF range.start >= changePos
       THEN [start |-> range.start + delta, end |-> range.end + delta]
       ELSE IF range.end > changePos
       THEN [start |-> range.start, end |-> range.end + delta]
       ELSE range
  ELSE LET delEnd == changePos - delta
       IN  IF range.end <= changePos THEN range
           ELSE IF range.start >= delEnd
           THEN [start |-> range.start + delta, end |-> range.end + delta]
           ELSE IF range.start >= changePos /\ range.end <= delEnd THEN NullRange
           ELSE IF range.start < changePos
           THEN [start |-> range.start, end |-> range.end + delta]
           ELSE [start |-> changePos, end |-> range.end + delta]

\* the image of one ghost range under an insertion (delta > 0) or a
\* deletion (delta <= 0) at changePos; NullRange for a dropped range
adjustRange(range, changePos, delta) ==
  IF delta > 0
  THEN IF range.start >= changePos
       THEN [start |-> range.start + delta, end |-> range.end + delta]
       ELSE IF range.end > changePos
       THEN [start |-> range.start, end |-> range.end + delta]
       ELSE range
  ELSE LET delEnd == changePos - delta
       IN  IF range.end <= changePos THEN range
           ELSE IF range.start >= delEnd
           THEN [start |-> range.start + delta, end |-> range.end + delta]
           ELSE IF range.start >= changePos /\ range.end <= delEnd THEN NullRange
           ELSE IF range.start < changePos /\ range.end > delEnd
           THEN [start |-> range.start, end |-> range.end + delta]
           ELSE IF range.start < changePos
           THEN [start |-> range.start, end |-> changePos]
           ELSE [start |-> changePos, end |-> range.end + delta]

\* variant of adjustRanges that keeps the empty ranges
adjustRanges_keepsEmpty(ranges, changePos, delta) ==
  SelectSeq([k \in 1..Len(ranges) |-> adjustRange(ranges[k], changePos, delta)],
            LAMBDA r : r # NullRange)

adjustRanges(ranges, changePos, delta) ==
  SelectSeq([k \in 1..Len(ranges) |-> adjustRange(ranges[k], changePos, delta)],
            LAMBDA r : r # NullRange /\ r.start < r.end)

(***************************************************************************)
(* Bounds of the model                                                     *)
(***************************************************************************)
\* number of key events explored from construction
MaxSteps == 4

\* a time between two key events shorter than the batching window, in ms
\* (half the window: two of them add up to a full window)
ShortGap == 250

\* edits beyond MAX_HISTORY in one recorded sequence of the deep history
CapSlack == 2

\* number of key events explored from construction when only the keys that
\* make and meet ghost ranges are pressed
MaxGhostSteps == 5

\* the largest number of key events counted
StepCap == Max(MaxSteps, MaxGhostSteps)

(***************************************************************************)
(* Key events (VirtualKeyEvent) and the inputs of the model                *)
(***************************************************************************)
Key(k, mods) ==
  [key |-> k, shiftKey |-> "shift" \in mods, altKey |-> "alt" \in mods,
   ctrlKey |-> "ctrl" \in mods, metaKey |-> "meta" \in mods]

\* characters typed by the model
TypedChars == {"x", "."}

\* characters typed in the "Pick one." scenario
ScenarioChars == {"t", "w", "o"}

\* the keys with event.key.length = 1 that the model knows
Printable == TypedChars \cup ScenarioChars

\* the values of now - lastEditTimeRef.current read by a call of saveHistory
\* once lastEditTimeRef has been set, counted up to BATCH_THRESHOLD
Gaps == {ShortGap, BATCH_THRESHOLD}

\* the elapsed time in a call saveHistory(true), where it decides nothing
AnyGap == CHOOSE gap \in Gaps : TRUE

ArrowEvents ==
  {Key(k, m) : k \in {"ArrowLeft", "ArrowRight"},
               m \in {{}, {"alt"}, {"meta"}, {"shift", "alt"}, {"shift", "meta"}}}

KeyEvents ==
  ArrowEvents
  \cup {Key("z", {"meta"}), Key("z", {"shift", "meta"})}
  \cup {Key("a", {"ctrl"}), Key("e", {"ctrl"}), Key("Escape", {})}
  \cup {Key("ArrowUp", {}), Key("ArrowDown", {})}
  \cup {Key("Backspace", m) : m \in {{}, {"alt"}, {"meta"}}}
  \cup {Key("Enter", {}), Key("Enter", {"meta"})}
  \cup {Key(c, {}) : c \in TypedChars}

\* the values of the initialText and initialCommittedSentences props
InitialProps ==
  {[initialText |-> <<>>, initialCommittedSentences |-> {}],
   [initialText |-> <<"a", ".", " ", "b">>, initialCommittedSentences |-> {0}]}

(***************************************************************************)
(* State                                                                   *)
(***************************************************************************)
VARIABLES
  text,               \* useState(initialText)
  cursorPosition,     \* useState(text.length)
  wordSelection,      \* {start, end, direction} or NoSelection
  sentenceSelection,  \* {start, end, direction} or NoSelection
  committedSentences, \* Set<number>
  ghostRanges,        \* array of {start, end}
  undoStack,          \* HistoryState[]
  redoStack,          \* HistoryState[]
  stamped,            \* lastEditTimeRef.current # 0: saveHistory has been called
  last,               \* history variable: the last key event and what its snapshot request did
  clock,              \* history variable: at the last snapshot request, the ms since the
                      \* request before it and since the last captured snapshot, counted
                      \* up to BATCH_THRESHOLD
  run,                \* history variable: the current run of rapid character insertions
  hist,               \* history variable: edits, undos and redos since construction
  steps               \* history variable: number of key events handled

progVars == <<text, cursorPosition, wordSelection, sentenceSelection,
              committedSentences, ghostRanges, undoStack, redoStack, stamped>>

obsVars == <<last, clock, run, hist, steps>>

vars == <<text, cursorPosition, wordSelection, sentenceSelection,
          committedSentences, ghostRanges, undoStack, redoStack, stamped,
          last, clock, run, hist, steps>>

\* null of a selection
NoSelection == [start |-> -1, end |-> -1, direction |-> "none"]

\* HistoryState of given components
Snapshot(t, c, g, cs) ==
  [text |-> t, cursorPosition |-> c, ghostRanges |-> g, committedSentences |-> cs]

\* currentState: the HistoryState read from the refs
Live == Snapshot(text, cursorPosition, ghostRanges, committedSentences)

LiveNext == Snapshot(text', cursorPosition', ghostRanges', committedSentences')

ast == parseDocument(text)

NoSnapshot == Snapshot(<<>>, -1, <<>>, {})

IdleHist == [phase |-> "idle", s0 |-> NoSnapshot, final |-> NoSnapshot,
             nOps |-> 0, nUndo |-> 0, nRedo |-> 0]

VoidHist == [phase |-> "void", s0 |-> NoSnapshot, final |-> NoSnapshot,
             nOps |-> 0, nUndo |-> 0, nRedo |-> 0]

InitObs ==
  /\ last = [op |-> "none", saved |-> "none"]
  /\ clock = [request |-> BATCH_THRESHOLD, capture |-> BATCH_THRESHOLD]
  /\ run = [len |-> 0, snaps |-> 0]
  /\ hist = IdleHist

\* the component after its first render with the given props
Mounted(props) ==
  /\ text = props.initialText
  /\ committedSentences = props.initialCommittedSentences
  /\ cursorPosition = Len(text)
  /\ wordSelection = NoSelection
  /\ sentenceSelection = NoSelection
  /\ ghostRanges = <<>>
  /\ undoStack = <<>>
  /\ redoStack = <<>>
  /\ stamped = FALSE

Init ==
  /\ \E props \in InitialProps : Mounted(props)
  /\ InitObs
  /\ steps = 0

(***************************************************************************)
(* History variables.  class is "edit" when the handler called             *)
(* saveHistory, "undo", "redo", or "other"; force is saveHistory's         *)
(* argument.  They record what happened and never influence the program.   *)
(***************************************************************************)
HistNext(class) ==
  IF hist.phase = "idle" /\ class # "edit" THEN hist
  ELSE IF class = "edit" /\ hist.phase \in {"idle", "edit"}
  THEN [phase |-> "edit",
        s0 |-> IF hist.phase = "idle" THEN Live ELSE hist.s0,
        final |-> LiveNext,
        nOps |-> hist.nOps + 1, nUndo |-> 0, nRedo |-> 0]
  ELSE IF class = "undo" /\ hist.phase \in {"edit", "undo"} /\ hist.nUndo < hist.nOps
  THEN [hist EXCEPT !.phase = "undo", !.nUndo = @ + 1]
  ELSE IF class = "redo" /\ hist.phase \in {"undo", "redo"}
          /\ hist.nUndo = hist.nOps /\ hist.nRedo < hist.nOps
  THEN [hist EXCEPT !.phase = "redo", !.nRedo = @ + 1]
  ELSE VoidHist

Track(op, class, force, elapsed) ==
  LET captured == class = "edit" /\ undoStack' # undoStack
      insert == class = "edit" /\ ~force
      rapid == last.saved \in {"captured", "absorbed"}
               /\ elapsed < BATCH_THRESHOLD
  IN  /\ steps' = Min(steps + 1, StepCap)
      /\ last' = [op |-> op,
                  saved |-> IF class # "edit" THEN "none"
                            ELSE IF force THEN "forced"
                            ELSE IF captured THEN "captured" ELSE "absorbed"]
      /\ clock' = IF class # "edit" THEN clock
                  ELSE [request |-> elapsed,
                        capture |-> IF captured THEN 0
                                    ELSE Min(clock.capture + elapsed, BATCH_THRESHOLD)]
      /\ run' = IF ~insert THEN [len |-> 0, snaps |-> 0]
                ELSE IF rapid
                THEN [len |-> Min(run.len + 1, 2),
                      snaps |-> Min(run.snaps + (IF captured THEN 1 ELSE 0), 2)]
                ELSE [len |-> 1, snaps |-> IF captured THEN 1 ELSE 0]
      /\ hist' = HistNext(class)

(***************************************************************************)
(* Editor.tsx: history manager                                             *)
(***************************************************************************)
clearSelections ==
  /\ wordSelection' = NoSelection
  /\ sentenceSelection' = NoSelection

\* variant of LastN that keeps one entry more
LastN_oneMore(stack, n) ==
  IF Len(stack) <= n + 1 THEN stack
  ELSE SubSeq(stack, Len(stack) - n, Len(stack))

\* prev.slice(-n) for n > 0
LastN(stack, n) ==
  IF Len(stack) <= n THEN stack ELSE SubSeq(stack, Len(stack) - n + 1, Len(stack))

\* variant of saveHistory that batches whatever the elapsed time
saveHistory_anyAge(force, elapsed) ==
  LET shouldBatch == ~force
  IN  /\ stamped' = TRUE
      /\ IF shouldBatch /\ Len(undoStack) > 0
         THEN UNCHANGED <<undoStack, redoStack>>
         ELSE /\ undoStack' = Append(LastN(undoStack, MAX_HISTORY - 1), Live)
              /\ redoStack' = <<>>

\* elapsed is now - lastEditTimeRef.current
saveHistory(force, elapsed) ==
  LET shouldBatch == ~force /\ elapsed < BATCH_THRESHOLD
  IN  /\ stamped' = TRUE
      /\ IF shouldBatch /\ Len(undoStack) > 0
         THEN UNCHANGED <<undoStack, redoStack>>
         ELSE /\ undoStack' = Append(LastN(undoStack, MAX_HISTORY - 1), Live)
              /\ redoStack' = <<>>

\* variant of restoreState that leaves the committed set alone
restoreState_keepCommitted(state) ==
  /\ text' = state.text
  /\ cursorPosition' = state.cursorPosition
  /\ ghostRanges' = state.ghostRanges
  /\ UNCHANGED committedSentences
  /\ clearSelections

restoreState(state) ==
  /\ text' = state.text
  /\ cursorPosition' = state.cursorPosition
  /\ ghostRanges' = state.ghostRanges
  /\ committedSentences' = state.committedSentences
  /\ clearSelections

\* variant of Undo that does not keep the current state for redo
Undo_noRedoEntry(e) ==
  /\ e.metaKey /\ ~e.shiftKey /\ e.key \in {"z", "Z"}
  /\ IF Len(undoStack) > 0
     THEN /\ redoStack' = redoStack
          /\ undoStack' = SubSeq(undoStack, 1, Len(undoStack) - 1)
          /\ restoreState(undoStack[Len(undoStack)])
          /\ UNCHANGED stamped
     ELSE UNCHANGED progVars
  /\ Track("undo", "undo", FALSE, AnyGap)

\* Cmd+Z
Undo(e) ==
  /\ e.metaKey /\ ~e.shiftKey /\ e.key \in {"z", "Z"}
  /\ IF Len(undoStack) > 0
     THEN /\ redoStack' = Append(redoStack, Live)
          /\ undoStack' = SubSeq(undoStack, 1, Len(undoStack) - 1)
          /\ restoreState(undoStack[Len(undoStack)])
          /\ UNCHANGED stamped
     ELSE UNCHANGED progVars
  /\ Track("undo", "undo", FALSE, AnyGap)

\* variant of Redo that clears the selections when there is nothing to redo
Redo_clearsOnEmpty(e) ==
  /\ e.metaKey /\ e.shiftKey /\ e.key \in {"z", "Z"}
  /\ IF Len(redoStack) > 0
     THEN /\ undoStack' = Append(undoStack, Live)
          /\ redoStack' = SubSeq(redoStack, 1, Len(redoStack) - 1)
          /\ restoreState(redoStack[Len(redoStack)])
          /\ UNCHANGED stamped
     ELSE /\ clearSelections
          /\ UNCHANGED <<text, cursorPosition, committedSentences, ghostRanges,
                         undoStack, redoStack, stamped>>
  /\ Track("redo", "redo", FALSE, AnyGap)

\* Cmd+Shift+Z
Redo(e) ==
  /\ e.metaKey /\ e.shiftKey /\ e.key \in {"z", "Z"}
  /\ IF Len(redoStack) > 0
     THEN /\ undoStack' = Append(undoStack, Live)
          /\ redoStack' = SubSeq(redoStack, 1, Len(redoStack) - 1)
          /\ restoreState(redoStack[Len(redoStack)])
          /\ UNCHANGED stamped
     ELSE UNCHANGED progVars
  /\ Track("redo", "redo", FALSE, AnyGap)

(***************************************************************************)
(* Editor.tsx: handleKeyDown, selection and cursor movement                *)
(***************************************************************************)
\* the undo and redo branches return from the handler
Returned(e) == e.metaKey /\ e.key \in {"z", "Z"}

\* the branch of the first if / else-if chain taken by a key event
ArrowBranch(e) ==
  IF Returned(e) THEN "return"
  ELSE IF e.shiftKey /\ e.altKey /\ e.key = "ArrowRight" THEN "wordSelectRight"
  ELSE IF e.shiftKey /\ e.altKey /\ e.key = "ArrowLeft" THEN "wordSelectLeft"
  ELSE IF e.shiftKey /\ e.metaKey /\ e.key = "ArrowRight" THEN "sentenceSelectRight"
  ELSE IF e.shiftKey /\ e.metaKey /\ e.key = "ArrowLeft" THEN "sentenceSelectLeft"
  ELSE IF e.metaKey /\ e.key = "ArrowRight" THEN "sentenceRight"
  ELSE IF e.metaKey /\ e.key = "ArrowLeft" THEN "sentenceLeft"
  ELSE IF e.altKey /\ e.key = "ArrowRight" THEN "wordRight"
  ELSE IF e.altKey /\ e.key = "ArrowLeft" THEN "wordLeft"
  ELSE IF e.key = "ArrowRight" THEN "charRight"
  ELSE IF e.key = "ArrowLeft" THEN "charLeft"
  ELSE "none"

\* variant of wordSelectRight that clears the selection at the last word
wordSelectRight_clearsAtEdge(prev, a, cursor) ==
  LET wordCount == Len(a.words)
      wordIdx == getWordIndexAtPosition(a, cursor)
      newEnd == prev.end + 1
  IN  IF prev = NoSelection
      THEN IF wordIdx >= wordCount - 1 /\ cursor >= Len(a.text) THEN NoSelection
           ELSE [start |-> wordIdx, end |-> wordIdx, direction |-> "right"]
      ELSE IF prev.direction = "left" /\ newEnd > prev.start THEN NoSelection
      ELSE IF newEnd >= wordCount THEN NoSelection
      ELSE [prev EXCEPT !.end = newEnd]

\* updater of setWordSelection, Shift+Option+ArrowRight
wordSelectRight(prev, a, cursor) ==
  LET wordCount == Len(a.words)
      wordIdx == getWordIndexAtPosition(a, cursor)
      newEnd == prev.end + 1
  IN  IF prev = NoSelection
      THEN IF wordIdx >= wordCount - 1 /\ cursor >= Len(a.text) THEN NoSelection
           ELSE [start |-> wordIdx, end |-> wordIdx, direction |-> "right"]
      ELSE IF prev.direction = "left" /\ newEnd > prev.start THEN NoSelection
      ELSE IF newEnd >= wordCount THEN prev
      ELSE [prev EXCEPT !.end = newEnd]

\* variant of wordSelectLeft that always starts at the word at the cursor
wordSelectLeft_atCursor(prev, a, cursor) ==
  LET wordIdx == getWordIndexAtPosition(a, cursor)
      newEnd == prev.end - 1
  IN  IF prev = NoSelection
      THEN IF cursor = 0 THEN NoSelection
           ELSE [start |-> wordIdx, end |-> wordIdx, direction |-> "left"]
      ELSE IF prev.direction = "right" /\ newEnd < prev.start THEN NoSelection
      ELSE IF newEnd < 0 THEN prev
      ELSE [prev EXCEPT !.end = newEnd]

\* updater of setWordSelection, Shift+Option+ArrowLeft
wordSelectLeft(prev, a, cursor) ==
  LET idx0 == getWordIndexAtPosition(a, cursor)
      wordIdx == IF idx0 < Len(a.words) /\ idx0 > 0
                    /\ cursor = a.words[idx0 + 1].charStart
                 THEN idx0 - 1 ELSE idx0
      newEnd == prev.end - 1
  IN  IF prev = NoSelection
      THEN IF cursor = 0 THEN NoSelection
           ELSE [start |-> wordIdx, end |-> wordIdx, direction |-> "left"]
      ELSE IF prev.direction = "right" /\ newEnd < prev.start THEN NoSelection
      ELSE IF newEnd < 0 THEN prev
      ELSE [prev EXCEPT !.end = newEnd]

\* sentenceSelectRight without the clearing of a leftward selection that
\* would cross its start
sentenceSelectRight_noCrossing(prev, a, cursor) ==
  LET sentenceCount == Len(a.sentences)
      sentenceIdx == getSentenceIndexAtPosition(a, cursor)
      newEnd == prev.end + 1
  IN  IF prev = NoSelection
      THEN IF cursor >= Len(a.text) THEN NoSelection
           ELSE IF sentenceIdx >= sentenceCount - 1 /\ sentenceCount > 0
                   /\ cursor >= a.sentences[sentenceCount].charEnd
           THEN NoSelection
           ELSE [start |-> sentenceIdx, end |-> sentenceIdx, direction |-> "right"]
      ELSE IF newEnd >= sentenceCount THEN prev
      ELSE [prev EXCEPT !.end = newEnd]

\* updater of setSentenceSelection, Cmd+Shift+ArrowRight
sentenceSelectRight(prev, a, cursor) ==
  LET sentenceCount == Len(a.sentences)
      sentenceIdx == getSentenceIndexAtPosition(a, cursor)
      newEnd == prev.end + 1
  IN  IF prev = NoSelection
      THEN IF cursor >= Len(a.text) THEN NoSelection
           ELSE IF sentenceIdx >= sentenceCount - 1 /\ sentenceCount > 0
                   /\ cursor >= a.sentences[sentenceCount].charEnd
           THEN NoSelection
           ELSE [start |-> sentenceIdx, end |-> sentenceIdx, direction |-> "right"]
      ELSE IF prev.direction = "left" /\ newEnd > prev.start THEN NoSelection
      ELSE IF newEnd >= sentenceCount THEN prev
      ELSE [prev EXCEPT !.end = newEnd]

\* variant of sentenceSelectLeft that turns a rightward selection around at
\* its anchor
sentenceSelectLeft_flips(prev, a, cursor) ==
  LET sentenceIdx == getSentenceIndexAtPosition(a, cursor)
      newEnd == prev.end - 1
  IN  IF prev = NoSelection
      THEN IF cursor = 0 THEN NoSelection
           ELSE [start |-> sentenceIdx, end |-> sentenceIdx, direction |-> "left"]
      ELSE IF newEnd < 0 THEN prev
      ELSE IF prev.direction = "right" /\ newEnd < prev.start
      THEN [prev EXCEPT !.end = newEnd, !.direction = "left"]
      ELSE [prev EXCEPT !.end = newEnd]

\* updater of setSentenceSelection, Cmd+Shift+ArrowLeft
sentenceSelectLeft(prev, a, cursor) ==
  LET sentenceIdx == getSentenceIndexAtPosition(a, cursor)
      newEnd == prev.end - 1
  IN  IF prev = NoSelection
      THEN IF cursor = 0 THEN NoSelection
           ELSE [start |-> sentenceIdx, end |-> sentenceIdx, direction |-> "left"]
      ELSE IF prev.direction = "right" /\ newEnd < prev.start THEN NoSelection
      ELSE IF newEnd < 0 THEN prev
      ELSE [prev EXCEPT !.end = newEnd]

SelectWord(e) ==
  /\ ArrowBranch(e) \in {"wordSelectRight", "wordSelectLeft"}
  /\ wordSelection' = IF ArrowBranch(e) = "wordSelectRight"
                      THEN wordSelectRight(wordSelection, ast, cursorPosition)
                      ELSE wordSelectLeft(wordSelection, ast, cursorPosition)
  /\ UNCHANGED <<text, cursorPosition, sentenceSelection, committedSentences,
                 ghostRanges, undoStack, redoStack, stamped>>
  /\ Track("selectWord", "other", FALSE, AnyGap)

SelectSentence(e) ==
  /\ ArrowBranch(e) \in {"sentenceSelectRight", "sentenceSelectLeft"}
  /\ sentenceSelection' = IF ArrowBranch(e) = "sentenceSelectRight"
                          THEN sentenceSelectRight(sentenceSelection, ast, cursorPosition)
                          ELSE sentenceSelectLeft(sentenceSelection, ast, cursorPosition)
  /\ UNCHANGED <<text, cursorPosition, wordSelection, committedSentences,
                 ghostRanges, undoStack, redoStack, stamped>>
  /\ Track("selectSentence", "other", FALSE, AnyGap)

\* MoveTo that also drops the ghost ranges
MoveTo_dropsGhosts(newPos) ==
  /\ clearSelections
  /\ cursorPosition' = newPos
  /\ ghostRanges' = <<>>
  /\ UNCHANGED <<text, committedSentences, undoStack, redoStack, stamped>>
  /\ Track("move", "other", FALSE, AnyGap)

\* a cursor movement: clearSelections and a new cursor position
MoveTo(newPos) ==
  /\ clearSelections
  /\ cursorPosition' = newPos
  /\ UNCHANGED <<text, committedSentences, ghostRanges, undoStack, redoStack,
                 stamped>>
  /\ Track("move", "other", FALSE, AnyGap)

\* Cmd+Arrow
MoveSentence(e) ==
  /\ ArrowBranch(e) \in {"sentenceRight", "sentenceLeft"}
  /\ MoveTo(findSentenceBoundary(cursorPosition, text,
                                    IF ArrowBranch(e) = "sentenceRight" THEN 1 ELSE -1))

\* Option+Arrow
MoveWord(e) ==
  /\ ArrowBranch(e) \in {"wordRight", "wordLeft"}
  /\ MoveTo(findWordBoundary(cursorPosition, text,
                                IF ArrowBranch(e) = "wordRight" THEN 1 ELSE -1))

\* Arrow
MoveChar(e) ==
  /\ ArrowBranch(e) \in {"charRight", "charLeft"}
  /\ MoveTo(IF ArrowBranch(e) = "charRight"
               THEN Min(cursorPosition + 1, Len(text))
               ELSE Max(cursorPosition - 1, 0))

\* Ctrl+A, Ctrl+E
MoveLine(e) ==
  /\ ~Returned(e) /\ e.ctrlKey /\ e.key \in {"a", "e"}
  /\ MoveTo(IF e.key = "a" THEN getLineInfo(cursorPosition, text).lineStart
               ELSE getLineInfo(cursorPosition, text).lineEnd)

\* variant of Escape that leaves the selections as they are
Escape_keepsSelections(e) ==
  /\ ~Returned(e) /\ e.key = "Escape"
  /\ UNCHANGED <<wordSelection, sentenceSelection>>
  /\ UNCHANGED <<text, cursorPosition, committedSentences, ghostRanges,
                 undoStack, redoStack, stamped>>
  /\ Track("escape", "other", FALSE, AnyGap)

Escape(e) ==
  /\ ~Returned(e) /\ e.key = "Escape"
  /\ clearSelections
  /\ UNCHANGED <<text, cursorPosition, committedSentences, ghostRanges,
                 undoStack, redoStack, stamped>>
  /\ Track("escape", "other", FALSE, AnyGap)

\* ArrowUp / ArrowDown with no sentence selection
MoveVertical(e) ==
  /\ ~Returned(e) /\ e.key \in {"ArrowUp", "ArrowDown"}
  /\ sentenceSelection = NoSelection
  /\ MoveTo(moveCursorVertically(cursorPosition, text,
                                    IF e.key = "ArrowUp" THEN -1 ELSE 1))

(***************************************************************************)
(* Editor.tsx: handleKeyDown, edit operations                              *)
(***************************************************************************)
SelMin(sel) == Min(sel.start, sel.end)

SelMax(sel) == Max(sel.start, sel.end)

\* a || " "
OrSpace(sep) == IF Len(sep) = 0 THEN <<" ">> ELSE sep

\* committed indices after the block minIdx..maxIdx moved up by one
remapUp(committed, minIdx, maxIdx) ==
  {IF idx >= minIdx /\ idx <= maxIdx THEN idx - 1
   ELSE IF idx = minIdx - 1 THEN maxIdx
   ELSE idx : idx \in committed}

\* committed indices after the block minIdx..maxIdx moved down by one
remapDown(committed, minIdx, maxIdx) ==
  {IF idx >= minIdx /\ idx <= maxIdx THEN idx + 1
   ELSE IF idx = maxIdx + 1 THEN minIdx
   ELSE idx : idx \in committed}

\* committed indices after the sentences minIdx..maxIdx were deleted
remapDelete(committed, minIdx, maxIdx) ==
  {idx \in committed : idx < minIdx}
  \cup {idx - (maxIdx - minIdx + 1) : idx \in {i \in committed : i > maxIdx}}

\* ArrowUp with a sentence selection
ReorderUp(e) ==
  /\ ~Returned(e) /\ e.key = "ArrowUp"
  /\ sentenceSelection # NoSelection
  /\ LET selection == sentenceSelection
         minIdx == SelMin(selection)
         maxIdx == SelMax(selection)
         sentences == ast.sentences
     IN  IF minIdx > 0
         THEN /\ saveHistory(TRUE, AnyGap)
              /\ IF maxIdx >= Len(sentences)
                 THEN \* sentences[maxIdx] is undefined: reading its charEnd
                      \* throws, only the updates of saveHistory are applied
                      UNCHANGED <<text, cursorPosition, wordSelection,
                                  sentenceSelection, committedSentences, ghostRanges>>
                 ELSE LET prevSentence == sentences[minIdx]
                          firstSelected == sentences[minIdx + 1]
                          lastSelected == sentences[maxIdx + 1]
                          hasAfter == maxIdx + 2 <= Len(sentences)
                          prevSentenceText ==
                            Slice(text, prevSentence.charStart, prevSentence.charEnd)
                          selectedSentencesText ==
                            Slice(text, firstSelected.charStart, lastSelected.charEnd)
                          sepBetweenPrevAndSelected ==
                            OrSpace(Slice(text, prevSentence.charEnd, firstSelected.charStart))
                          sepAfterSelected ==
                            IF hasAfter
                            THEN Slice(text, lastSelected.charEnd,
                                       sentences[maxIdx + 2].charStart)
                            ELSE <<>>
                          before == Slice(text, 0, prevSentence.charStart)
                          after == IF hasAfter
                                   THEN Slice(text, sentences[maxIdx + 2].charStart, Len(text))
                                   ELSE <<>>
                          newText0 == before \o selectedSentencesText
                                      \o sepBetweenPrevAndSelected \o prevSentenceText
                          newText == IF Len(after) > 0
                                     THEN newText0 \o sepAfterSelected \o after
                                     ELSE newText0
                          newMinIdx == minIdx - 1
                          newMaxIdx == maxIdx - 1
                      IN  /\ text' = newText
                          /\ ghostRanges' = <<>>
                          /\ sentenceSelection' =
                               [selection EXCEPT
                                  !.start = IF selection.direction = "right"
                                            THEN newMinIdx ELSE newMaxIdx,
                                  !.end = IF selection.direction = "right"
                                          THEN newMaxIdx ELSE newMinIdx]
                          /\ committedSentences' = remapUp(committedSentences, minIdx, maxIdx)
                          /\ cursorPosition' = Len(before)
                          /\ UNCHANGED wordSelection
              /\ Track("reorder", "edit", TRUE, AnyGap)
         ELSE /\ UNCHANGED progVars
              /\ Track("reorder", "other", FALSE, AnyGap)

\* variant of ReorderDown that takes a snapshot before it finds the block at
\* the last sentence
ReorderDown_edgeSaves(e) ==
  /\ ~Returned(e) /\ e.key = "ArrowDown"
  /\ sentenceSelection # NoSelection
  /\ LET selection == sentenceSelection
         minIdx == SelMin(selection)
         maxIdx == SelMax(selection)
         sentences == ast.sentences
     IN  IF maxIdx < Len(sentences) - 1
         THEN LET firstSelected == sentences[minIdx + 1]
                  lastSelected == sentences[maxIdx + 1]
                  nextSentence == sentences[maxIdx + 2]
                  hasAfter == maxIdx + 3 <= Len(sentences)
                  selectedSentencesText ==
                    Slice(text, firstSelected.charStart, lastSelected.charEnd)
                  nextSentenceText ==
                    Slice(text, nextSentence.charStart, nextSentence.charEnd)
                  sepBetweenSelectedAndNext ==
                    OrSpace(Slice(text, lastSelected.charEnd, nextSentence.charStart))
                  sepAfterNext ==
                    IF hasAfter
                    THEN Slice(text, nextSentence.charEnd, sentences[maxIdx + 3].charStart)
                    ELSE <<>>
                  before == Slice(text, 0, firstSelected.charStart)
                  after == IF hasAfter
                           THEN Slice(text, sentences[maxIdx + 3].charStart, Len(text))
                           ELSE <<>>
                  newText0 == before \o nextSentenceText
                              \o sepBetweenSelectedAndNext \o selectedSentencesText
                  newText == IF Len(after) > 0
                             THEN newText0 \o sepAfterNext \o after
                             ELSE newText0
                  newMinIdx == minIdx + 1
                  newMaxIdx == maxIdx + 1
              IN  /\ saveHistory(TRUE, AnyGap)
                  /\ text' = newText
                  /\ ghostRanges' = <<>>
                  /\ sentenceSelection' =
                       [selection EXCEPT
                          !.start = IF selection.direction = "right"
                                    THEN newMinIdx ELSE newMaxIdx,
                          !.end = IF selection.direction = "right"
                                  THEN newMaxIdx ELSE newMinIdx]
                  /\ committedSentences' = remapDown(committedSentences, minIdx, maxIdx)
                  /\ cursorPosition' = Len(before) + Len(nextSentenceText)
                                       + Len(sepBetweenSelectedAndNext)
                  /\ UNCHANGED wordSelection
                  /\ Track("reorder", "edit", TRUE, AnyGap)
         ELSE /\ saveHistory(TRUE, AnyGap)
              /\ UNCHANGED <<text, cursorPosition, wordSelection,
                             sentenceSelection, committedSentences, ghostRanges>>
              /\ Track("reorder", "edit", TRUE, AnyGap)

\* ArrowDown with a sentence selection
ReorderDown(e) ==
  /\ ~Returned(e) /\ e.key = "ArrowDown"
  /\ sentenceSelection # NoSelection
  /\ LET selection == sentenceSelection
         minIdx == SelMin(selection)
         maxIdx == SelMax(selection)
         sentences == ast.sentences
     IN  IF maxIdx < Len(sentences) - 1
         THEN LET firstSelected == sentences[minIdx + 1]
                  lastSelected == sentences[maxIdx + 1]
                  nextSentence == sentences[maxIdx + 2]
                  hasAfter == maxIdx + 3 <= Len(sentences)
                  selectedSentencesText ==
                    Slice(text, firstSelected.charStart, lastSelected.charEnd)
                  nextSentenceText ==
                    Slice(text, nextSentence.charStart, nextSentence.charEnd)
                  sepBetweenSelectedAndNext ==
                    OrSpace(Slice(text, lastSelected.charEnd, nextSentence.charStart))
                  sepAfterNext ==
                    IF hasAfter
                    THEN Slice(text, nextSentence.charEnd, sentences[maxIdx + 3].charStart)
                    ELSE <<>>
                  before == Slice(text, 0, firstSelected.charStart)
                  after == IF hasAfter
                           THEN Slice(text, sentences[maxIdx + 3].charStart, Len(text))
                           ELSE <<>>
                  newText0 == before \o nextSentenceText
                              \o sepBetweenSelectedAndNext \o selectedSentencesText
                  newText == IF Len(after) > 0
                             THEN newText0 \o sepAfterNext \o after
                             ELSE newText0
                  newMinIdx == minIdx + 1
                  newMaxIdx == maxIdx + 1
              IN  /\ saveHistory(TRUE, AnyGap)
                  /\ text' = newText
                  /\ ghostRanges' = <<>>
                  /\ sentenceSelection' =
                       [selection EXCEPT
                          !.start = IF selection.direction = "right"
                                    THEN newMinIdx ELSE newMaxIdx,
                          !.end = IF selection.direction = "right"
                                  THEN newMaxIdx ELSE newMinIdx]
                  /\ committedSentences' = remapDown(committedSentences, minIdx, maxIdx)
                  /\ cursorPosition' = Len(before) + Len(nextSentenceText)
                                       + Len(sepBetweenSelectedAndNext)
                  /\ UNCHANGED wordSelection
                  /\ Track("reorder", "edit", TRUE, AnyGap)
         ELSE /\ UNCHANGED progVars
              /\ Track("reorder", "other", FALSE, AnyGap)

\* variant of DeleteSpan that leaves the cursor at the end of the removed span
DeleteSpan_cursorAtEnd(from, to) ==
  /\ text' = Slice(text, 0, from) \o Slice(text, to, Len(text))
  /\ ghostRanges' = adjustRanges(ghostRanges, from, -(to - from))
  /\ cursorPosition' = to

\* removal of [from, to) with the cursor left at from
DeleteSpan(from, to) ==
  /\ text' = Slice(text, 0, from) \o Slice(text, to, Len(text))
  /\ ghostRanges' = adjustRanges(ghostRanges, from, -(to - from))
  /\ cursorPosition' = from

Backspace(e) ==
  /\ ~Returned(e) /\ e.key = "Backspace"
  /\ saveHistory(TRUE, AnyGap)
  /\ IF sentenceSelection # NoSelection
     THEN LET range == getSentenceSelectionRange(ast, sentenceSelection)
          IN  /\ DeleteSpan(range.start, range.end)
              /\ committedSentences' =
                   remapDelete(committedSentences, SelMin(sentenceSelection),
                               SelMax(sentenceSelection))
              /\ clearSelections
     ELSE IF wordSelection # NoSelection
     THEN LET range == getWordSelectionRange(ast, wordSelection)
          IN  /\ DeleteSpan(range.start, range.end)
              /\ clearSelections
              /\ UNCHANGED committedSentences
     ELSE IF cursorPosition > 0
     THEN LET pos == cursorPosition
          IN  /\ IF e.metaKey
                 THEN DeleteSpan(findSentenceBoundary(pos, text, -1), pos)
                 ELSE IF e.altKey
                 THEN DeleteSpan(findWordBoundary(pos, text, -1), pos)
                 ELSE DeleteSpan(pos - 1, pos)
              /\ UNCHANGED <<wordSelection, sentenceSelection, committedSentences>>
     ELSE UNCHANGED <<text, cursorPosition, wordSelection, sentenceSelection,
                      committedSentences, ghostRanges>>
  /\ Track("backspace", "edit", TRUE, AnyGap)

\* variant of ToggleCommit that toggles every selected sentence on its own
ToggleCommit_eachOnItsOwn(e) ==
  /\ ~Returned(e) /\ e.key = "Enter" /\ e.metaKey
  /\ saveHistory(TRUE, AnyGap)
  /\ IF sentenceSelection # NoSelection
     THEN LET minIdx == SelMin(sentenceSelection)
              maxIdx == SelMax(sentenceSelection)
          IN  /\ committedSentences' = (committedSentences \ (minIdx..maxIdx))
                                       \cup ((minIdx..maxIdx) \ committedSentences)
              /\ clearSelections
     ELSE LET sentenceIdx == getSentenceIndexAtPosition(ast, cursorPosition)
          IN  /\ committedSentences' = IF sentenceIdx \in committedSentences
                                       THEN committedSentences \ {sentenceIdx}
                                       ELSE committedSentences \cup {sentenceIdx}
              /\ UNCHANGED <<wordSelection, sentenceSelection>>
  /\ UNCHANGED <<text, cursorPosition, ghostRanges>>
  /\ Track("toggle", "edit", TRUE, AnyGap)

\* Cmd+Enter
ToggleCommit(e) ==
  /\ ~Returned(e) /\ e.key = "Enter" /\ e.metaKey
  /\ saveHistory(TRUE, AnyGap)
  /\ IF sentenceSelection # NoSelection
     THEN LET minIdx == SelMin(sentenceSelection)
              maxIdx == SelMax(sentenceSelection)
              allCommitted == \A i \in minIdx..maxIdx : i \in committedSentences
          IN  /\ committedSentences' = IF allCommitted
                                       THEN committedSentences \ (minIdx..maxIdx)
                                       ELSE committedSentences \cup (minIdx..maxIdx)
              /\ clearSelections
     ELSE LET sentenceIdx == getSentenceIndexAtPosition(ast, cursorPosition)
          IN  /\ committedSentences' = IF sentenceIdx \in committedSentences
                                       THEN committedSentences \ {sentenceIdx}
                                       ELSE committedSentences \cup {sentenceIdx}
              /\ UNCHANGED <<wordSelection, sentenceSelection>>
  /\ UNCHANGED <<text, cursorPosition, ghostRanges>>
  /\ Track("toggle", "edit", TRUE, AnyGap)

Enter(e) ==
  /\ ~Returned(e) /\ e.key = "Enter" /\ ~e.metaKey
  /\ saveHistory(TRUE, AnyGap)
  /\ clearSelections
  /\ LET pos == cursorPosition
     IN  /\ text' = Slice(text, 0, pos) \o <<NL>> \o Slice(text, pos, Len(text))
         /\ ghostRanges' = adjustRanges(ghostRanges, pos, 1)
         /\ cursorPosition' = pos + 1
  /\ UNCHANGED committedSentences
  /\ Track("enter", "edit", TRUE, AnyGap)

\* a single printable character
InsertChar(e, elapsed) ==
  /\ ~Returned(e)
  /\ e.key \notin {"Backspace", "Enter"}
  /\ e.key \in Printable /\ ~e.ctrlKey /\ ~e.metaKey
  \* lastEditTimeRef starts at 0, and Date.now() is far beyond the window
  /\ elapsed \in (IF stamped THEN Gaps ELSE {BATCH_THRESHOLD})
  /\ saveHistory(FALSE, elapsed)
  /\ IF sentenceSelection # NoSelection \/ wordSelection # NoSelection
     THEN LET range == IF sentenceSelection # NoSelection
                       THEN getSentenceSelectionRange(ast, sentenceSelection)
                       ELSE getWordSelectionRange(ast, wordSelection)
              sentenceIdx == getSentenceIndexAtPosition(ast, range.start)
              isCommitted == sentenceIdx \in committedSentences
          IN  /\ IF isCommitted
                 THEN LET insertPos == range.end
                          spacer == IF e.key \in AlphaNum THEN <<" ">> ELSE <<>>
                          newText == spacer \o <<e.key>>
                          newGhostRange == [start |-> range.start,
                                            end |-> range.end + Len(spacer)]
                      IN  /\ text' = Slice(text, 0, insertPos) \o newText
                                     \o Slice(text, insertPos, Len(text))
                          /\ ghostRanges' =
                               Append(adjustRanges(ghostRanges, insertPos, Len(newText)),
                                      newGhostRange)
                          /\ cursorPosition' = insertPos + Len(newText)
                 ELSE /\ text' = Slice(text, 0, range.start) \o <<e.key>>
                                 \o Slice(text, range.end, Len(text))
                      /\ ghostRanges' = adjustRanges(ghostRanges, range.start,
                                                     1 - (range.end - range.start))
                      /\ cursorPosition' = range.start + 1
              /\ clearSelections
     ELSE LET pos == cursorPosition
          IN  /\ text' = Slice(text, 0, pos) \o <<e.key>> \o Slice(text, pos, Len(text))
              /\ ghostRanges' = adjustRanges(ghostRanges, pos, 1)
              /\ cursorPosition' = pos + 1
              /\ UNCHANGED <<wordSelection, sentenceSelection>>
  /\ UNCHANGED committedSentences
  /\ Track("insert", "edit", FALSE, elapsed)

(***************************************************************************)
(* Specification: at most MaxSteps key events of KeyEvents, any time apart *)
(***************************************************************************)
Next ==
  \/ \E e \in KeyEvents : steps < MaxSteps /\ Undo(e)
  \/ \E e \in KeyEvents : steps < MaxSteps /\ Redo(e)
  \/ \E e \in KeyEvents : steps < MaxSteps /\ SelectWord(e)
  \/ \E e \in KeyEvents : steps < MaxSteps /\ SelectSentence(e)
  \/ \E e \in KeyEvents : steps < MaxSteps /\ MoveSentence(e)
  \/ \E e \in KeyEvents : steps < MaxSteps /\ MoveWord(e)
  \/ \E e \in KeyEvents : steps < MaxSteps /\ MoveChar(e)
  \/ \E e \in KeyEvents : steps < MaxSteps /\ MoveLine(e)
  \/ \E e \in KeyEvents : steps < MaxSteps /\ Escape(e)
  \/ \E e \in KeyEvents : steps < MaxSteps /\ MoveVertical(e)
  \/ \E e \in KeyEvents : steps < MaxSteps /\ ReorderUp(e)
  \/ \E e \in KeyEvents : steps < MaxSteps /\ ReorderDown(e)
  \/ \E e \in KeyEvents : steps < MaxSteps /\ Backspace(e)
  \/ \E e \in KeyEvents : steps < MaxSteps /\ ToggleCommit(e)
  \/ \E e \in KeyEvents : steps < MaxSteps /\ Enter(e)
  \/ \E e \in KeyEvents, elapsed \in Gaps : steps < MaxSteps /\ InsertChar(e, elapsed)

Spec == Init /\ [][Next]_vars

(***************************************************************************)
(* Deep history: the same component driven only by commit toggles, undo    *)
(* and redo, with no budget of key events, far enough to fill the undo     *)
(* stack past MAX_HISTORY.                                                 *)
(***************************************************************************)
HistoryEvents ==
  {Key("Enter", {"meta"}), Key("z", {"meta"}), Key("z", {"shift", "meta"})}

InitCap ==
  /\ Mounted([initialText |-> <<"a", ".", " ", "b">>,
              initialCommittedSentences |-> {0}])
  /\ InitObs
  /\ steps = StepCap

NextCap ==
  \/ \E e \in HistoryEvents :
       hist.nOps < MAX_HISTORY + CapSlack /\ ToggleCommit(e)
  \/ \E e \in HistoryEvents : Undo(e)
  \/ \E e \in HistoryEvents : Redo(e)

SpecCap == InitCap /\ [][NextCap]_vars

(***************************************************************************)
(* Ghost ranges: the same component, mounted on a text whose first         *)
(* sentence is committed and driven for at most MaxGhostSteps key events   *)
(* by the keys that select leftwards, move the cursor back, toggle a       *)
(* commit, delete and type.                                                *)
(***************************************************************************)
\* the values of the initialText and initialCommittedSentences props
GhostProps ==
  {[initialText |-> <<"a", ".", " ", "b">>, initialCommittedSentences |-> {0}],
   [initialText |-> <<".">>, initialCommittedSentences |-> {0}]}

InitGhost ==
  /\ \E props \in GhostProps : Mounted(props)
  /\ InitObs
  /\ steps = 0

GhostEvents ==
  {Key("ArrowLeft", {"shift", "alt"}), Key("ArrowLeft", {"shift", "meta"}),
   Key("ArrowLeft", {"alt"}), Key("a", {"ctrl"}),
   Key("Backspace", {}), Key("Enter", {"meta"})}
  \cup {Key(c, {}) : c \in TypedChars}

NextGhost ==
  \/ \E e \in GhostEvents : steps < MaxGhostSteps /\ SelectWord(e)
  \/ \E e \in GhostEvents : steps < MaxGhostSteps /\ SelectSentence(e)
  \/ \E e \in GhostEvents : steps < MaxGhostSteps /\ MoveWord(e)
  \/ \E e \in GhostEvents : steps < MaxGhostSteps /\ MoveLine(e)
  \/ \E e \in GhostEvents : steps < MaxGhostSteps /\ Backspace(e)
  \/ \E e \in GhostEvents : steps < MaxGhostSteps /\ ToggleCommit(e)
  \/ \E e \in GhostEvents, elapsed \in Gaps :
       steps < MaxGhostSteps /\ InsertChar(e, elapsed)

SpecGhost == InitGhost /\ [][NextGhost]_vars

(***************************************************************************)
(* The "Pick one." scenario: the component mounted on that sentence,       *)
(* committed, and driven for at most MaxSteps key events by the word       *)
(* selection keys, Option+ArrowLeft and the letters t, w, o.               *)
(***************************************************************************)
PickText == <<"P", "i", "c", "k", " ", "o", "n", "e", ".">>

InitPick ==
  /\ Mounted([initialText |-> PickText, initialCommittedSentences |-> {0}])
  /\ InitObs
  /\ steps = 0

PickEvents ==
  {Key("ArrowLeft", {"shift", "alt"}), Key("ArrowRight", {"shift", "alt"}),
   Key("ArrowLeft", {"alt"})}
  \cup {Key(c, {}) : c \in ScenarioChars}

NextPick ==
  \/ \E e \in PickEvents : steps < MaxSteps /\ SelectWord(e)
  \/ \E e \in PickEvents : steps < MaxSteps /\ MoveWord(e)
  \/ \E e \in PickEvents, elapsed \in Gaps :
       steps < MaxSteps /\ InsertChar(e, elapsed)

SpecPick == InitPick /\ [][NextPick]_vars

(***************************************************************************)
(* Properties                                                              *)
(***************************************************************************)
\* a step that handled a key event through the given branch (Spec only:
\* steps grows with every key event there)
KeyStep(op) == steps' # steps /\ last'.op = op

\* a step whose handler went through saveHistory
EditStep == steps' # steps /\ last'.saved # "none"

C2_DivergentEditClearsRedo ==
  [][(EditStep /\ (text' # text \/ committedSentences' # committedSentences))
       => redoStack' = <<>>]_vars

\* C3: a run of k >= 2 character insertions, each within the batching window
\* of the previous one, produces exactly one undo snapshot.
C3_OneSnapshotPerRun == run.len >= 2 => run.snaps = 1

\* C4: a character insertion that directly follows a forced-snapshot
\* operation captures its own snapshot, whatever the timing.
C4_InsertAfterForcedCaptures ==
  [][(KeyStep("insert") /\ last.saved = "forced")
       => /\ last'.saved = "captured"
          /\ undoStack' = Append(undoStack, Live)]_vars

\* C5 as stated: a character insertion is absorbed only if the previous
\* snapshot was captured less than BATCH_THRESHOLD ms earlier.
C5_WindowFromLastCapture ==
  [][(KeyStep("insert") /\ last'.saved = "absorbed")
       => clock'.capture < BATCH_THRESHOLD]_vars

\* C5 amended: a character insertion is absorbed only if the previous
\* snapshot request (the previous call of saveHistory, whether it captured
\* or was absorbed) was made less than BATCH_THRESHOLD ms earlier; one that
\* arrives BATCH_THRESHOLD ms or more after the previous request captures.
C5_WindowFromLastRequest ==
  [][KeyStep("insert")
       => /\ last'.saved = "absorbed" => clock'.request < BATCH_THRESHOLD
          /\ clock'.request >= BATCH_THRESHOLD
               => /\ last'.saved = "captured"
                  /\ undoStack' = Append(undoStack, Live)]_vars

\* an insertion absorbed although the last capture is a full window old
C5_Witness ==
  /\ last.op = "insert"
  /\ last.saved = "absorbed"
  /\ clock.request < BATCH_THRESHOLD
  /\ clock.capture >= BATCH_THRESHOLD

\* C6: undo with a non-empty undo stack pushes the current state onto the
\* redo stack, removes the newest undo snapshot, makes it the live state and
\* sets both selections to null; redo is symmetric.
C6_SingleStep ==
  [][/\ (KeyStep("undo") /\ Len(undoStack) > 0)
          => /\ redoStack' = Append(redoStack, Live)
             /\ undoStack' = SubSeq(undoStack, 1, Len(undoStack) - 1)
             /\ LiveNext = undoStack[Len(undoStack)]
             /\ wordSelection' = NoSelection
             /\ sentenceSelection' = NoSelection
     /\ (KeyStep("redo") /\ Len(redoStack) > 0)
          => /\ undoStack' = Append(undoStack, Live)
             /\ redoStack' = SubSeq(redoStack, 1, Len(redoStack) - 1)
             /\ LiveNext = redoStack[Len(redoStack)]
             /\ wordSelection' = NoSelection
             /\ sentenceSelection' = NoSelection]_vars

\* an edit, its undo and its redo
C6_Witness ==
  /\ last.op = "redo"
  /\ hist.phase = "redo"
  /\ Len(undoStack) > 0
  /\ Live # undoStack[Len(undoStack)]

\* C7: undo with an empty undo stack and redo with an empty redo stack leave
\* text, cursor, both selections, committed set, ghost ranges and both
\* stacks unchanged.
C7_EmptyStackNoOp ==
  [][((KeyStep("undo") /\ Len(undoStack) = 0)
        \/ (KeyStep("redo") /\ Len(redoStack) = 0))
       => UNCHANGED <<text, cursorPosition, wordSelection, sentenceSelection,
                      committedSentences, ghostRanges, undoStack,
                      redoStack>>]_vars

\* a redo with nothing to redo, handled while a selection is active
C7_Witness ==
  /\ last.op = "redo"
  /\ Len(redoStack) = 0
  /\ Len(undoStack) > 0
  /\ wordSelection # NoSelection

\* C8: the undo stack never holds more than MAX_HISTORY snapshots, and a
\* push onto a full stack discards the oldest entry and keeps the order of
\* the others.
C8_HistoryCap ==
  /\ [](Len(undoStack) <= MAX_HISTORY)
  /\ [][(Len(undoStack) = MAX_HISTORY /\ Len(undoStack') = MAX_HISTORY
           /\ undoStack' # undoStack)
          => undoStack' = Append(Tail(undoStack), Live)]_vars

\* a snapshot was pushed onto a full stack
C8_Witness ==
  /\ Len(undoStack) = MAX_HISTORY
  /\ hist.phase = "edit"
  /\ hist.nOps > MAX_HISTORY

\* C9: 0 <= cursor <= text.length in every reachable state.
C9_CursorBound == 0 <= cursorPosition /\ cursorPosition <= Len(text)

\* a deletion that shortened the text and left the cursor at its end
C9_Witness ==
  /\ last.op = "backspace"
  /\ Len(undoStack) > 0
  /\ Len(undoStack[Len(undoStack)].text) > Len(text)
  /\ cursorPosition = Len(text)
  /\ Len(text) > 0

\* C10: every member of the committed set is the index of a sentence of the
\* current parse.
C10_CommittedValid ==
  \A idx \in committedSentences : 0 <= idx /\ idx < Len(ast.sentences)

(***************************************************************************)
(* Sentences across an edit                                                *)
(***************************************************************************)
\* the characters of one sentence of a parse
sentenceText(t, s) == Slice(t, s.charStart, s.charEnd)

\* the sentence texts of the parse of t, in document order
sentenceTexts(t) ==
  LET sentences == parseDocument(t).sentences
  IN  [k \in 1..Len(sentences) |-> sentenceText(t, sentences[k])]

\* the texts of the sentences of t whose index is in the committed set
committedTexts(t, committed) ==
  LET texts == sentenceTexts(t)
  IN  {texts[idx + 1] : idx \in {c \in committed : 0 <= c /\ c < Len(texts)}}

\* the number of leading characters two texts share
commonPrefix(a, b) ==
  SetMax({k \in 0..Min(Len(a), Len(b)) : SubSeq(a, 1, k) = SubSeq(b, 1, k)})

\* the number of trailing characters two texts share
commonSuffix(a, b) ==
  SetMax({k \in 0..Min(Len(a), Len(b)) :
            SubSeq(a, Len(a) - k + 1, Len(a)) = SubSeq(b, Len(b) - k + 1, Len(b))})

\* sentence so of the old text and sentence sn of the new text are the same
\* sentence, left alone by the edit: the same characters, wholly inside the
\* part of the text before the edit or wholly inside the part after it
sameSentence(old, new, so, sn) ==
  LET delta == Len(new) - Len(old)
  IN  \/ /\ so.charStart = sn.charStart
         /\ so.charEnd = sn.charEnd
         /\ so.charEnd <= commonPrefix(old, new)
      \/ /\ sn.charStart = so.charStart + delta
         /\ sn.charEnd = so.charEnd + delta
         /\ Len(old) - so.charStart <= commonSuffix(old, new)

\* the characters covered by a list of ghost ranges
ghostChars(ranges) ==
  UNION {r.start..(r.end - 1) : r \in {ranges[k] : k \in 1..Len(ranges)}}

\* a key event handled with no selection active
Unselected == wordSelection = NoSelection /\ sentenceSelection = NoSelection

\* C11 as stated: a character insert, an Enter or a backspace with no
\* selection keeps the committed flag on the sentences it does not touch:
\* a sentence the edit left alone is committed at its new index exactly
\* when it was committed at its old one.
C11_CommittedFollowsSentence ==
  [][(/\ KeyStep("insert") \/ KeyStep("enter") \/ KeyStep("backspace")
      /\ Unselected)
     => LET old == ast.sentences
            new == parseDocument(text').sentences
        IN  \A i \in 1..Len(old), j \in 1..Len(new) :
              sameSentence(text, text', old[i], new[j])
                => ((i - 1) \in committedSentences <=> (j - 1) \in committedSentences')]_vars

\* an ArrowUp that moved the selected block of sentences one place up
MovedUp ==
  /\ sentenceSelection # NoSelection
  /\ SelMin(sentenceSelection) > 0
  /\ SelMax(sentenceSelection) < Len(ast.sentences)
  /\ \E e \in KeyEvents : ReorderUp(e)

\* an ArrowDown that moved the selected block of sentences one place down
MovedDown ==
  /\ sentenceSelection # NoSelection
  /\ SelMax(sentenceSelection) < Len(ast.sentences) - 1
  /\ \E e \in KeyEvents : ReorderDown(e)

\* C12 as stated: a reorder that moved the block leaves the set of
\* committed sentence texts as it was.
C12_ReorderKeepsCommittedTexts ==
  [][(MovedUp \/ MovedDown)
     => committedTexts(text', committedSentences')
          = committedTexts(text, committedSentences)]_vars

\* the list with the block lo..hi (1-based) and the element after it exchanged
blockAfterNext(list, lo, hi) ==
  SubSeq(list, 1, lo - 1) \o <<list[hi + 1]>> \o SubSeq(list, lo, hi)
  \o SubSeq(list, hi + 2, Len(list))

\* the list with the block lo..hi (1-based) and the element before it exchanged
blockBeforePrev(list, lo, hi) ==
  SubSeq(list, 1, lo - 2) \o SubSeq(list, lo, hi) \o <<list[lo - 1]>>
  \o SubSeq(list, hi + 1, Len(list))

\* C13 as stated: after a reorder the sentence texts of the new parse are
\* the old ones with the selected block and its neighbour exchanged, every
\* other sentence in place.
C13_ReorderIsBlockSwap ==
  [][/\ MovedDown
        => sentenceTexts(text')
             = blockAfterNext(sentenceTexts(text), SelMin(sentenceSelection) + 1,
                              SelMax(sentenceSelection) + 1)
     /\ MovedUp
        => sentenceTexts(text')
             = blockBeforePrev(sentenceTexts(text), SelMin(sentenceSelection) + 1,
                               SelMax(sentenceSelection) + 1)]_vars

\* the selection and cursor a reorder by delta places must leave
reorderPostState(delta) ==
  LET newMin == SelMin(sentenceSelection) + delta
      newMax == SelMax(sentenceSelection) + delta
      new == parseDocument(text').sentences
  IN  /\ ghostRanges' = <<>>
      /\ SelMin(sentenceSelection') = newMin
      /\ SelMax(sentenceSelection') = newMax
      /\ sentenceSelection'.direction = sentenceSelection.direction
      /\ (sentenceSelection'.start <= sentenceSelection'.end)
           <=> (sentenceSelection.start <= sentenceSelection.end)
      /\ newMin < Len(new)
      /\ cursorPosition' = new[newMin + 1].charStart

\* C14 as stated: after a reorder that moved the block the ghost ranges
\* are empty, the sentence selection covers the block at its new indices in
\* the same direction, and the cursor is at the start of the block's first
\* sentence in the new parse.
C14_ReorderPostState ==
  [][/\ MovedUp => reorderPostState(-1)
     /\ MovedDown => reorderPostState(1)]_vars

\* an ArrowUp pressed with a sentence selection that starts at sentence 0
UpAtFirst ==
  /\ sentenceSelection # NoSelection
  /\ SelMin(sentenceSelection) = 0
  /\ \E e \in KeyEvents : ReorderUp(e)

\* an ArrowDown pressed with a sentence selection that ends at the last sentence
DownAtLast ==
  /\ sentenceSelection # NoSelection
  /\ SelMax(sentenceSelection) = Len(ast.sentences) - 1
  /\ \E e \in KeyEvents : ReorderDown(e)

\* C15: a reorder past an edge (ArrowUp with the selection at sentence 0,
\* ArrowDown with the selection at the last sentence) changes nothing:
\* text, cursor, both selections, committed set, ghost ranges and both
\* history stacks are as before.
C15_ReorderPastEdgeIsNoOp ==
  [][(UpAtFirst \/ DownAtLast)
     => UNCHANGED <<text, cursorPosition, wordSelection, sentenceSelection,
                    committedSentences, ghostRanges, undoStack, redoStack>>]_vars

\* a reorder key was ignored at an edge of a text of two sentences, with a
\* snapshot on the undo stack
C15_Witness ==
  /\ last.op = "reorder" /\ last.saved = "none"
  /\ sentenceSelection # NoSelection
  /\ Len(ast.sentences) >= 2
  /\ \/ SelMin(sentenceSelection) = 0
     \/ SelMax(sentenceSelection) = Len(ast.sentences) - 1
  /\ undoStack # <<>>

\* C16 as stated: Backspace with no selection and the cursor at 0 changes
\* nothing: text, cursor, selections, committed set and ghost ranges stay,
\* no snapshot is added to the undo stack and the redo stack is not
\* cleared.
C16_BackspaceAtStartIsNoOp ==
  [][(KeyStep("backspace") /\ Unselected /\ cursorPosition = 0)
     => UNCHANGED <<text, cursorPosition, wordSelection, sentenceSelection,
                    committedSentences, ghostRanges, undoStack, redoStack>>]_vars

\* the ghosted characters left by the removal of [from, to) and the
\* insertion of n characters in its place: those before from stay, those
\* from to on move with the text, those inside are gone
survivingGhostChars(ranges, from, to, n) ==
  {q \in ghostChars(ranges) : q < from}
  \cup {q - (to - from) + n : q \in {g \in ghostChars(ranges) : g >= to}}

\* C17 as stated: Backspace with a sentence selection min..max removes the
\* characters from sentences[min].charStart to sentences[max].charEnd and
\* nothing else, keeps the committed indices below min, lowers those above
\* max by max - min + 1 and drops those inside, translates the ghost
\* ranges, puts the cursor at the start of the removed span and clears both
\* selections.
C17_DeleteSentenceSelection ==
  [][(KeyStep("backspace") /\ sentenceSelection # NoSelection)
     => LET minIdx == SelMin(sentenceSelection)
            maxIdx == SelMax(sentenceSelection)
            sentences == ast.sentences
        IN  /\ 0 <= minIdx /\ maxIdx < Len(sentences)
            /\ LET from == sentences[minIdx + 1].charStart
                   to == sentences[maxIdx + 1].charEnd
               IN  /\ text' = Slice(text, 0, from) \o Slice(text, to, Len(text))
                   /\ committedSentences' =
                        {idx \in committedSentences : idx < minIdx}
                        \cup {idx - (maxIdx - minIdx + 1) :
                                idx \in {c \in committedSentences : c > maxIdx}}
                   /\ ghostChars(ghostRanges')
                        = survivingGhostChars(ghostRanges, from, to, 0)
                   /\ cursorPosition' = from
                   /\ wordSelection' = NoSelection
                   /\ sentenceSelection' = NoSelection]_vars

\* the start of the span a Backspace with no selection removes at cursor p
backspaceFrom(e, p) ==
  IF e.metaKey THEN findSentenceBoundary(p, text, -1)
  ELSE IF e.altKey THEN findWordBoundary(p, text, -1)
  ELSE p - 1

\* C18: Backspace with no selection and the cursor at p > 0 removes
\* exactly the character p - 1 (plain), the span from the previous word
\* boundary to p (Alt) or the span from the previous sentence boundary to p
\* (Cmd): at least one character goes, the text outside the span stays, the
\* cursor moves to the start of the span and the ghost ranges are
\* translated by the removed span.
C18_BackspaceSpan ==
  [][\A e \in KeyEvents :
       (Backspace(e) /\ Unselected /\ cursorPosition > 0)
       => LET p == cursorPosition
              from == backspaceFrom(e, p)
          IN  /\ 0 <= from /\ from < p
              /\ Len(text') = Len(text) - (p - from)
              /\ Slice(text', 0, from) = Slice(text, 0, from)
              /\ Slice(text', from, Len(text')) = Slice(text, p, Len(text))
              /\ cursorPosition' = from
              /\ ghostChars(ghostRanges')
                   = survivingGhostChars(ghostRanges, from, p, 0)]_vars

\* an Alt+Backspace or a Cmd+Backspace has just removed two characters or
\* more and cut the ghost ranges that reached into the removed span
C18_Witness ==
  /\ last.op = "backspace"
  /\ Unselected
  /\ undoStack # <<>>
  /\ LET pre == undoStack[Len(undoStack)]
     IN  /\ pre.cursorPosition > 0
         /\ Len(pre.text) - Len(text) >= 2
         /\ cursorPosition = pre.cursorPosition - (Len(pre.text) - Len(text))
         /\ pre.ghostRanges # <<>>
         /\ ghostRanges # <<>>
         /\ ghostRanges # pre.ghostRanges

\* what a character typed at the cursor with no selection does to the text,
\* the cursor, the committed set and the selections
plainInsertEffect ==
  LET p == cursorPosition
  IN  /\ Len(text') = Len(text) + 1
      /\ text'[p + 1] \in TypedChars
      /\ Slice(text', 0, p) = Slice(text, 0, p)
      /\ Slice(text', p + 1, Len(text')) = Slice(text, p, Len(text))
      /\ cursorPosition' = p + 1
      /\ committedSentences' = committedSentences
      /\ wordSelection' = wordSelection
      /\ sentenceSelection' = sentenceSelection

\* the image of one ghost range under the insertion of one character at p
ghostAfterInsert(r, p) ==
  IF r.start >= p THEN [start |-> r.start + 1, end |-> r.end + 1]
  ELSE IF r.end > p THEN [start |-> r.start, end |-> r.end + 1]
  ELSE r

selectedRange ==
  IF sentenceSelection # NoSelection
  THEN getSentenceSelectionRange(ast, sentenceSelection)
  ELSE getWordSelectionRange(ast, wordSelection)

\* a selection is active and the sentence that holds its first character is
\* not committed
UncommittedSelection ==
  /\ ~Unselected
  /\ getSentenceIndexAtPosition(ast, selectedRange.start) \notin committedSentences

\* C20 as stated: a character typed over a selection [s, e) of an
\* uncommitted sentence replaces exactly text[s..e) by the character, puts
\* the cursor at s + 1, clears both selections, and leaves ghosted exactly
\* the previously ghosted characters that survive: the typed character is
\* not ghosted.
C20_TypeOverUncommitted ==
  [][(KeyStep("insert") /\ UncommittedSelection)
     => LET s == selectedRange.start
            e == selectedRange.end
        IN  /\ Len(text') = Len(text) - (e - s) + 1
            /\ text'[s + 1] \in TypedChars
            /\ Slice(text', 0, s) = Slice(text, 0, s)
            /\ Slice(text', s + 1, Len(text')) = Slice(text, e, Len(text))
            /\ cursorPosition' = s + 1
            /\ wordSelection' = NoSelection
            /\ sentenceSelection' = NoSelection
            /\ ghostChars(ghostRanges')
                 = survivingGhostChars(ghostRanges, s, e, 1)]_vars

\* a selection is active and the sentence that holds its first character is
\* committed
CommittedSelection ==
  /\ ~Unselected
  /\ getSentenceIndexAtPosition(ast, selectedRange.start) \in committedSentences

\* the separator typed before a character that lands after a committed
\* selection
spacerOf(c) == IF c \in AlphaNum THEN <<" ">> ELSE <<>>

\* C21 as stated: a character c typed over a selection [s, e) of a
\* committed sentence deletes nothing, inserts the separator and c right
\* after the selection, adds the ghost range [s, e + |sep|), puts the cursor
\* just after c and clears the selections; c is outside every ghost range,
\* and so is every further character typed at the cursor after it.
C21_TypeOverCommitted ==
  [][/\ (KeyStep("insert") /\ CommittedSelection)
        => LET s == selectedRange.start
               e == selectedRange.end
           IN  \E c \in TypedChars :
                 /\ text' = Slice(text, 0, e) \o spacerOf(c) \o <<c>>
                            \o Slice(text, e, Len(text))
                 /\ \E k \in 1..Len(ghostRanges') :
                      ghostRanges'[k] = [start |-> s, end |-> e + Len(spacerOf(c))]
                 /\ cursorPosition' = e + Len(spacerOf(c)) + 1
                 /\ wordSelection' = NoSelection
                 /\ sentenceSelection' = NoSelection
                 /\ (e + Len(spacerOf(c))) \notin ghostChars(ghostRanges')
     /\ (/\ KeyStep("insert") /\ Unselected /\ last.op = "insert"
         /\ cursorPosition > 0
         /\ (cursorPosition - 1) \notin ghostChars(ghostRanges))
        => /\ (cursorPosition - 1) \notin ghostChars(ghostRanges')
           /\ cursorPosition \notin ghostChars(ghostRanges')]_vars

\* the editor holds the given text, cursor and ghost ranges, with the one
\* sentence committed and no selection
pickState(t, cursor, ghosts) ==
  /\ text = t
  /\ cursorPosition = cursor
  /\ ghostRanges = ghosts
  /\ committedSentences = {0}
  /\ Unselected

\* "Pick one." with the word "one" selected by a word selection
PickSelected ==
  /\ text = PickText
  /\ committedSentences = {0}
  /\ ghostRanges = <<>>
  /\ wordSelection # NoSelection
  /\ wordSelection.start = 1 /\ wordSelection.end = 1
  /\ sentenceSelection = NoSelection

\* the key c is typed
Types(c) == \E elapsed \in Gaps : InsertChar(Key(c, {}), elapsed)

\* the scenario after t and after t, w: the letters go in after "one" and a
\* space, before the full stop, and "one " is the ghost range
AfterT ==
  pickState(<<"P", "i", "c", "k", " ", "o", "n", "e", " ", "t", ".">>, 10,
            <<[start |-> 5, end |-> 9]>>)

AfterTW ==
  pickState(<<"P", "i", "c", "k", " ", "o", "n", "e", " ", "t", "w", ".">>, 11,
            <<[start |-> 5, end |-> 9]>>)

\* C22 as stated: with "Pick one." committed and "one" selected, typing
\* t, w, o leaves the buffer "Pick one. two" with the ghost flag on the
\* span of "one.", "two" live after it and the cursor right after "two".
C22_PickOneDotTwo ==
  [][(AfterTW /\ Types("o"))
     => /\ text' = PickText \o <<" ", "t", "w", "o">>
        /\ ghostChars(ghostRanges') = 5..8
        /\ cursorPosition' = 13]_vars

\* C22, amended: typing t, w, o leaves the buffer "Pick one two." with the
\* ghost flag on "one " (the word and the inserted space, [5, 9)), "two"
\* live right after the ghosted span and before the full stop, and the
\* cursor right after "two", at 12.
C22_PickOneTwoDot ==
  [][/\ (PickSelected /\ Types("t")) => AfterT'
     /\ (AfterT /\ Types("w")) => AfterTW'
     /\ (AfterTW /\ Types("o"))
        => /\ text' = <<"P", "i", "c", "k", " ", "o", "n", "e", " ",
                        "t", "w", "o", ".">>
           /\ ghostRanges' = <<[start |-> 5, end |-> 9]>>
           /\ cursorPosition' = 12
           /\ committedSentences' = {0}
           /\ Unselected']_vars

\* the scenario has run to its end
C22_Witness ==
  /\ steps = 4
  /\ pickState(<<"P", "i", "c", "k", " ", "o", "n", "e", " ", "t", "w", "o", ".">>,
               12, <<[start |-> 5, end |-> 9]>>)

\* C23 as stated: Enter follows the insertion rule of a character: with no
\* selection one newline is spliced in at the cursor and the cursor
\* advances by one; with a selection in an uncommitted sentence the
\* selected range is replaced by the newline; with a selection in a
\* committed sentence the old text is kept and marked as a ghost range.
C23_EnterAsInsert ==
  [][KeyStep("enter")
     => LET p == cursorPosition
            s == selectedRange.start
            e == selectedRange.end
        IN  /\ Unselected
               => /\ text' = Slice(text, 0, p) \o <<NL>> \o Slice(text, p, Len(text))
                  /\ cursorPosition' = p + 1
            /\ UncommittedSelection
               => text' = Slice(text, 0, s) \o <<NL>> \o Slice(text, e, Len(text))
            /\ CommittedSelection
               => /\ Slice(text', 0, e) = Slice(text, 0, e)
                  /\ Len(text') = Len(text) + 1
                  /\ \A q \in s..(e - 1) : q \in ghostChars(ghostRanges')]_vars

\* C24 as stated: in every reachable state the ghost ranges are pairwise
\* disjoint and each of them satisfies 0 <= start < end <= text.length.
C24_GhostRangesWellFormed ==
  \A k \in 1..Len(ghostRanges) :
    /\ 0 <= ghostRanges[k].start
    /\ ghostRanges[k].start < ghostRanges[k].end
    /\ ghostRanges[k].end <= Len(text)
    /\ \A j \in 1..Len(ghostRanges) :
         j # k => \/ ghostRanges[j].end <= ghostRanges[k].start
                  \/ ghostRanges[k].end <= ghostRanges[j].start


(***************************************************************************)
(* adjustRanges on its own: the ranges, the position and the length of the *)
(* change are drawn from bounded sets and the function is applied to them  *)
(* once.                                                                   *)
(***************************************************************************)
\* longest text the ranges given to adjustRanges lie in
AdjLen == 3

\* largest number of characters inserted or deleted by one change
MaxDelta == 2

\* largest number of ranges given to adjustRanges
MaxRanges == 2

\* the ranges { start, end } with 0 <= start <= end <= n
rangesWithin(n) ==
  {r \in [start : 0..n, end : 0..n] : r.start <= r.end}

\* a text of n characters and a list of ranges in it
InitAdjust ==
  /\ \E n \in 0..AdjLen :
       /\ text = [i \in 1..n |-> "x"]
       /\ ghostRanges \in UNION {[1..m -> rangesWithin(n)] : m \in 0..MaxRanges}
  /\ cursorPosition = Len(text)
  /\ committedSentences = {}
  /\ wordSelection = NoSelection
  /\ sentenceSelection = NoSelection
  /\ undoStack = <<>>
  /\ redoStack = <<>>
  /\ stamped = FALSE
  /\ InitObs
  /\ steps = 0

\* adjustRanges(ranges, changePos, delta) for d characters inserted at p
ApplyInsertion(p, d) ==
  /\ steps = 0
  /\ text' = SubSeq(text, 1, p) \o [i \in 1..d |-> "x"]
             \o SubSeq(text, p + 1, Len(text))
  /\ ghostRanges' = adjustRanges(ghostRanges, p, d)
  /\ cursorPosition' = p + d
  /\ last' = [op |-> "adjustInsert", saved |-> "none"]
  /\ steps' = steps + 1
  /\ UNCHANGED <<wordSelection, sentenceSelection, committedSentences,
                 undoStack, redoStack, stamped, clock, run, hist>>

\* variant of ApplyDeletion that passes the length of the deletion as a
\* positive delta
ApplyDeletion_positiveDelta(p, d) ==
  /\ steps = 0
  /\ p + d <= Len(text)
  /\ text' = SubSeq(text, 1, p) \o SubSeq(text, p + d + 1, Len(text))
  /\ ghostRanges' = adjustRanges(ghostRanges, p, d)
  /\ cursorPosition' = p
  /\ last' = [op |-> "adjustDelete", saved |-> "none"]
  /\ steps' = steps + 1
  /\ UNCHANGED <<wordSelection, sentenceSelection, committedSentences,
                 undoStack, redoStack, stamped, clock, run, hist>>

\* adjustRanges(ranges, changePos, delta) for the characters [p, p + d)
\* deleted: delta is -d
ApplyDeletion(p, d) ==
  /\ steps = 0
  /\ p + d <= Len(text)
  /\ text' = SubSeq(text, 1, p) \o SubSeq(text, p + d + 1, Len(text))
  /\ ghostRanges' = adjustRanges(ghostRanges, p, -d)
  /\ cursorPosition' = p
  /\ last' = [op |-> "adjustDelete", saved |-> "none"]
  /\ steps' = steps + 1
  /\ UNCHANGED <<wordSelection, sentenceSelection, committedSentences,
                 undoStack, redoStack, stamped, clock, run, hist>>

NextAdjust ==
  \/ \E p \in 0..Len(text), d \in 1..MaxDelta : ApplyInsertion(p, d)
  \/ \E p \in 0..Len(text), d \in 1..MaxDelta : ApplyDeletion(p, d)

SpecAdjust == InitAdjust /\ [][NextAdjust]_vars

\* per-character reference of an insertion of d characters at p into a text
\* of n characters: a character that was there is ghosted after exactly
\* when it was ghosted before, an inserted character is ghosted only when a
\* range strictly straddles p, and no range of the result is empty
insertionFaithful(before, after, p, d, n) ==
  /\ \A i \in 0..(n - 1) :
       (IF i < p THEN i ELSE i + d) \in ghostChars(after)
         <=> i \in ghostChars(before)
  /\ \A j \in p..(p + d - 1) :
       j \in ghostChars(after)
         => \E k \in 1..Len(before) : before[k].start < p /\ p < before[k].end
  /\ \A k \in 1..Len(after) : after[k].start < after[k].end

\* per-character reference of the deletion of [p, p + d) from a text of n
\* characters: a character that survives is ghosted after exactly when it
\* was ghosted before, and no range of the result is empty
deletionFaithful(before, after, p, d, n) ==
  /\ \A i \in (0..(p - 1)) \cup ((p + d)..(n - 1)) :
       (IF i < p THEN i ELSE i - d) \in ghostChars(after)
         <=> i \in ghostChars(before)
  /\ \A k \in 1..Len(after) : after[k].start < after[k].end

\* C25: adjustRanges translates the ghost ranges faithfully against a
\* per-character reference: for an insertion of d characters at p and for
\* a deletion of [p, p + d), a surviving character is ghosted after exactly
\* when it was ghosted before, inserted characters are ghosted only when a
\* range strictly straddles p, and no empty range is returned.
C25_AdjustRangesFaithful ==
  [][\A p \in 0..Len(text), d \in 1..MaxDelta :
       /\ ApplyInsertion(p, d)
            => insertionFaithful(ghostRanges, ghostRanges', p, d, Len(text))
       /\ ApplyDeletion(p, d)
            => deletionFaithful(ghostRanges, ghostRanges', p, d, Len(text))]_vars

\* characters were inserted inside a range that straddles the insertion
\* point, and the range grew over them
C25_Witness ==
  /\ last.op = "adjustInsert"
  /\ \E k \in 1..Len(ghostRanges) :
       /\ ghostRanges[k].start < cursorPosition - MaxDelta
       /\ ghostRanges[k].end > cursorPosition


WordRight == SelectWord(Key("ArrowRight", {"shift", "alt"}))

WordLeft == SelectWord(Key("ArrowLeft", {"shift", "alt"}))

SentenceRight == SelectSentence(Key("ArrowRight", {"shift", "meta"}))

SentenceLeft == SelectSentence(Key("ArrowLeft", {"shift", "meta"}))

\* a selection of the single unit idx made by a command of direction dir
unitSelection(idx, dir) == [start |-> idx, end |-> idx, direction |-> dir]

\* the selection the claim gives to a start at the cursor: none for a
\* rightward start at the end of the text and for a leftward start at
\* position 0, the unit at the cursor otherwise
startAtCursor(idx, dir) ==
  IF dir = "right" /\ cursorPosition >= Len(text) THEN NoSelection
  ELSE IF dir = "left" /\ cursorPosition = 0 THEN NoSelection
  ELSE unitSelection(idx, dir)

\* the cursor is exactly at the start of a word that is not the first one
AtLaterWordStart ==
  LET wordIdx == getWordIndexAtPosition(ast, cursorPosition)
  IN  /\ 0 < wordIdx /\ wordIdx < Len(ast.words)
      /\ cursorPosition = ast.words[wordIdx + 1].charStart

\* the cursor is at or past the end of the last sentence
PastLastSentence ==
  /\ Len(ast.sentences) > 0
  /\ getSentenceIndexAtPosition(ast, cursorPosition) >= Len(ast.sentences) - 1
  /\ cursorPosition >= ast.sentences[Len(ast.sentences)].charEnd

\* a key event handled by one of the two selection branches
StartsSelection == KeyStep("selectWord") \/ KeyStep("selectSentence")

MaxExtend == 2

\* texts of two and of three words and sentences
CollapseTexts ==
  {<<"a", ".", " ", "b">>,
   <<"a", ".", " ", "b", ".", " ", "x">>}

\* no run of selection commands has begun
NoRun == [phase |-> "idle", unit |-> "none", direction |-> "none",
          started |-> FALSE, held |-> FALSE, forth |-> 0, back |-> 0]

InitCollapse ==
  /\ text \in CollapseTexts
  /\ cursorPosition \in 0..Len(text)
  /\ committedSentences = {}
  /\ wordSelection = NoSelection
  /\ sentenceSelection = NoSelection
  /\ ghostRanges = <<>>
  /\ undoStack = <<>>
  /\ redoStack = <<>>
  /\ stamped = FALSE
  /\ last = [op |-> "none", saved |-> "none"]
  /\ clock = [request |-> BATCH_THRESHOLD, capture |-> BATCH_THRESHOLD]
  /\ run = [len |-> 0, snaps |-> 0]
  /\ hist = NoRun
  /\ steps = 0

opposite(direction) == IF direction = "right" THEN "left" ELSE "right"

\* the selection of the given unit
selectionOf(unit) == IF unit = "word" THEN wordSelection ELSE sentenceSelection

\* the selection of the given unit after the command
selectionAfter(unit) == IF unit = "word" THEN wordSelection' ELSE sentenceSelection'

\* Shift+Option+Arrow (unit "word") or Cmd+Shift+Arrow (unit "sentence") in
\* the given direction: the updater is applied to the selection of the unit
selectCommand(unit, direction) ==
  /\ wordSelection' =
       IF unit # "word" THEN wordSelection
       ELSE IF direction = "right"
       THEN wordSelectRight(wordSelection, ast, cursorPosition)
       ELSE wordSelectLeft(wordSelection, ast, cursorPosition)
  /\ sentenceSelection' =
       IF unit # "sentence" THEN sentenceSelection
       ELSE IF direction = "right"
       THEN sentenceSelectRight(sentenceSelection, ast, cursorPosition)
       ELSE sentenceSelectLeft(sentenceSelection, ast, cursorPosition)
  /\ last' = [op |-> IF unit = "word" THEN "selectWord" ELSE "selectSentence",
              saved |-> "none"]
  /\ steps' = steps + 1
  /\ UNCHANGED <<text, cursorPosition, committedSentences, ghostRanges,
                 undoStack, redoStack, stamped, clock, run>>

\* the first command of a run
CollapseStart(unit, direction) ==
  /\ hist.phase = "idle"
  /\ selectCommand(unit, direction)
  /\ hist' = [phase |-> "forth", unit |-> unit, direction |-> direction,
              started |-> selectionAfter(unit) # NoSelection, held |-> FALSE,
              forth |-> 0, back |-> 0]

\* an extension in the direction of the start; held when the selection
\* stays as it was
CollapseForth ==
  /\ hist.phase = "forth" /\ hist.forth < MaxExtend
  /\ selectCommand(hist.unit, hist.direction)
  /\ hist' = [hist EXCEPT !.forth = @ + 1,
                          !.held = @ \/ selectionAfter(hist.unit) = selectionOf(hist.unit)]

\* a command in the opposite direction, at most one more than the
\* extensions of the run
CollapseBack ==
  /\ hist.phase \in {"forth", "back"} /\ hist.back < hist.forth + 1
  /\ selectCommand(hist.unit, opposite(hist.direction))
  /\ hist' = [hist EXCEPT !.phase = "back", !.back = @ + 1]

NextCollapse ==
  \/ \E unit \in {"word", "sentence"}, direction \in {"left", "right"} :
       CollapseStart(unit, direction)
  \/ CollapseForth
  \/ CollapseBack

SpecCollapse == InitCollapse /\ [][NextCollapse]_vars

\* a run that started a selection, extended it k times and went back k + 1
\* times
RunDone ==
  hist.phase = "back" /\ hist.started /\ hist.back = hist.forth + 1

unitCount(unit) == IF unit = "word" THEN Len(ast.words) ELSE Len(ast.sentences)

\* the last unit for a command to the right, unit 0 for one to the left
edgeUnit(unit, direction) == IF direction = "right" THEN unitCount(unit) - 1 ELSE 0

\* a selection of the unit is active and its end is at the edge that the
\* command moves towards
EndAtEdge(unit, direction) ==
  /\ selectionOf(unit) # NoSelection
  /\ selectionOf(unit).end = edgeUnit(unit, direction)

MovesOrEscapes ==
  /\ KeyStep("move") \/ KeyStep("escape")
  /\ \E e \in KeyEvents :
       \/ MoveChar(e) \/ MoveWord(e) \/ MoveSentence(e)
       \/ MoveLine(e) \/ Escape(e)

MovesVertically(e) ==
  KeyStep("move") /\ e.key \in {"ArrowUp", "ArrowDown"} /\ MoveVertical(e)

\* the position in the same column of the line before (direction -1) or
\* after (direction 1) the line of pos, clamped to the length of that line;
\* pos itself when there is no such line
sameColumn(pos, direction) ==
  LET lines == {[from |-> s, to |-> e] : s \in 0..Len(text), e \in 0..Len(text)}
      isLine(l) == /\ l.from <= l.to
                   /\ l.from = 0 \/ At(text, l.from - 1) = NL
                   /\ l.to = Len(text) \/ At(text, l.to) = NL
                   /\ \A k \in l.from..(l.to - 1) : At(text, k) # NL
      here == CHOOSE l \in lines : isLine(l) /\ l.from <= pos /\ pos <= l.to
      target == {l \in lines : /\ isLine(l)
                                /\ IF direction < 0 THEN l.to + 1 = here.from
                                   ELSE here.to + 1 = l.from}
  IN  IF target = {} THEN pos
      ELSE LET l == CHOOSE l \in target : TRUE
           IN  l.from + Min(pos - here.from, l.to - l.from)

\* the text has a line before (direction -1) or after (direction 1) the
\* line of the cursor
HasLine(direction) ==
  IF direction < 0 THEN getLineInfo(cursorPosition, text).lineStart > 0
  ELSE getLineInfo(cursorPosition, text).lineEnd < Len(text)

\* C31 as stated: ArrowUp or ArrowDown used as cursor movement (no sentence
\* selection active) moves the cursor to the same column of the previous
\* or next line, clamped to that line's length, and leaves an active word
\* selection unchanged.
C31_VerticalKeepsWordSelection ==
  [][\A e \in KeyEvents :
       MovesVertically(e)
         => LET direction == IF e.key = "ArrowUp" THEN -1 ELSE 1
            IN  /\ HasLine(direction)
                     => cursorPosition' = sameColumn(cursorPosition, direction)
                /\ wordSelection' = wordSelection]_vars


(***************************************************************************)
(* Key events delivered without a render in between.  emit calls the       *)
(* handler synchronously; the handler reads the ref cells, and the render  *)
(* that copies the state into them is scheduled by React, not by the       *)
(* handler.  Here the variables text, cursorPosition, ... are the React    *)
(* state with the queued updates applied, and the variable hist holds the  *)
(* ref cells.  No selection key is pressed, so both selections stay null.  *)
(***************************************************************************)
\* number of key events delivered
MaxRefSteps == 3

\* textRef, cursorRef, ... : the ref cells read by handleKeyDown
refs == hist

\* the values a render assigns to the ref cells
Rendered ==
  [text |-> text, cursorPosition |-> cursorPosition,
   wordSelection |-> wordSelection, sentenceSelection |-> sentenceSelection,
   committedSentences |-> committedSentences, ghostRanges |-> ghostRanges,
   undoStack |-> undoStack, redoStack |-> redoStack]

\* astRef.current: the parse of the text of the last render
astRef == parseDocument(refs.text)

InitRefs ==
  /\ \E props \in InitialProps : Mounted(props)
  /\ hist = Rendered
  /\ last = [op |-> "none", saved |-> "none"]
  /\ clock = [request |-> BATCH_THRESHOLD, capture |-> BATCH_THRESHOLD]
  /\ run = [len |-> 0, snaps |-> 0]
  /\ steps = 0

\* saveHistory, with currentState read from the ref cells
saveHistoryFromRefs(force, elapsed) ==
  LET shouldBatch == ~force /\ elapsed < BATCH_THRESHOLD
      currentState == Snapshot(refs.text, refs.cursorPosition, refs.ghostRanges,
                               refs.committedSentences)
  IN  /\ stamped' = TRUE
      /\ IF shouldBatch /\ Len(refs.undoStack) > 0
         THEN UNCHANGED <<undoStack, redoStack>>
         ELSE /\ undoStack' = Append(LastN(undoStack, MAX_HISTORY - 1), currentState)
              /\ redoStack' = <<>>

\* what every delivered key event records
Delivered(op) ==
  /\ steps < MaxRefSteps
  /\ steps' = steps + 1
  /\ last' = [op |-> op, saved |-> "none"]
  /\ UNCHANGED <<wordSelection, sentenceSelection, clock, run>>

\* a single printable character with no selection in the ref cells
InsertFromRefs(e, elapsed) ==
  /\ e.key \in Printable /\ ~e.ctrlKey /\ ~e.metaKey
  /\ refs.wordSelection = NoSelection /\ refs.sentenceSelection = NoSelection
  /\ elapsed \in (IF stamped THEN Gaps ELSE {BATCH_THRESHOLD})
  /\ saveHistoryFromRefs(FALSE, elapsed)
  /\ LET pos == refs.cursorPosition
     IN  /\ text' = Slice(text, 0, pos) \o <<e.key>> \o Slice(text, pos, Len(text))
         /\ ghostRanges' = adjustRanges(refs.ghostRanges, pos, 1)
         /\ cursorPosition' = pos + 1
         /\ hist' = [refs EXCEPT !.cursorPosition = pos + 1]
  /\ UNCHANGED committedSentences
  /\ Delivered("insert")

\* Cmd+Enter with no sentence selection in the ref cells
ToggleFromRefs(e) ==
  /\ e.key = "Enter" /\ e.metaKey
  /\ refs.sentenceSelection = NoSelection
  /\ saveHistoryFromRefs(TRUE, AnyGap)
  /\ LET sentenceIdx == getSentenceIndexAtPosition(astRef, refs.cursorPosition)
     IN  committedSentences' = IF sentenceIdx \in committedSentences
                               THEN committedSentences \ {sentenceIdx}
                               ELSE committedSentences \cup {sentenceIdx}
  /\ UNCHANGED <<text, cursorPosition, ghostRanges, hist>>
  /\ Delivered("toggle")

\* the component renders: every ref cell is assigned from the state
Render ==
  /\ refs # Rendered
  /\ hist' = Rendered
  /\ last' = [op |-> "render", saved |-> "none"]
  /\ UNCHANGED <<progVars, clock, run, steps>>

RefEvents == {Key(c, {}) : c \in TypedChars} \cup {Key("Enter", {"meta"})}

NextRefs ==
  \/ \E e \in RefEvents, elapsed \in Gaps : InsertFromRefs(e, elapsed)
  \/ \E e \in RefEvents : ToggleFromRefs(e)
  \/ Render

SpecRefs == InitRefs /\ [][NextRefs]_vars

\* C32 as stated: the text, parsed AST, cursor, selections, committed set,
\* ghost ranges and undo/redo stacks read by the handler of a key event are
\* exactly those produced by the previous key event, also when two key
\* events are delivered before the view re-renders.
C32_ConsistentPreState ==
  /\ refs.text = text
  /\ astRef = parseDocument(text)
  /\ refs.cursorPosition = cursorPosition
  /\ refs.wordSelection = wordSelection
  /\ refs.sentenceSelection = sentenceSelection
  /\ refs.committedSentences = committedSentences
  /\ refs.ghostRanges = ghostRanges
  /\ refs.undoStack = undoStack
  /\ refs.redoStack = redoStack


(***************************************************************************)
(* The parser on its own: the text is drawn from the texts of a bounded    *)
(* length over a small alphabet, and parseDocument is applied to it.  Here *)
(* the variable hist holds the result of the call.                         *)
(***************************************************************************)
\* longest text given to the parser
ParseLen == 4

\* a letter, the blank, two terminators, the comma and the newline
ParseChars == {"a", " ", ".", "?", ",", NL}

\* the example text "Hello world. Goodbye."
HelloText ==
  <<"H", "e", "l", "l", "o", " ", "w", "o", "r", "l", "d", ".", " ",
    "G", "o", "o", "d", "b", "y", "e", ".">>

\* two closed sentences and a blank after the second
TrailingText == <<"a", ".", " ", "a", ".", " ">>

ParseTexts ==
  UNION {[1..n -> ParseChars] : n \in 0..ParseLen} \cup {HelloText, TrailingText}

\* end (exclusive) of the longest run of characters from i on that are all
\* separators (sep = TRUE) or all other characters (sep = FALSE)
classRunEnd(t, i, sep) ==
  SetMin({j \in i..Len(t) :
            j = Len(t) \/ ((At(t, j) \in WORD_BOUNDARY) # sep)})

\* text.split(/([ ,;.?!\n—()]+)/) from position i on: a part without
\* separators (empty when a separator is next or the text is over), then a
\* run of separators, and so on
RECURSIVE splitFrom(_, _)
splitFrom(t, i) ==
  LET j == classRunEnd(t, i, FALSE)
  IN  IF j >= Len(t) THEN <<Slice(t, i, j)>>
      ELSE LET k == classRunEnd(t, j, TRUE)
           IN  <<Slice(t, i, j), Slice(t, j, k)>> \o splitFrom(t, k)

\* WORD_SEPARATORS.test(part)
isSeparatorPart(part) ==
  Len(part) > 0 /\ \A k \in 1..Len(part) : part[k] \in WORD_BOUNDARY

\* the loop of tokenize over the parts, with the running charIndex
RECURSIVE tokensOfParts(_, _)
tokensOfParts(parts, charIndex) ==
  IF parts = <<>> THEN <<>>
  ELSE LET part == Head(parts)
       IN  IF Len(part) = 0 THEN tokensOfParts(Tail(parts), charIndex)
           ELSE <<[type |-> IF isSeparatorPart(part) THEN "separator" ELSE "word",
                   text |-> part,
                   charStart |-> charIndex,
                   charEnd |-> charIndex + Len(part)]>>
                \o tokensOfParts(Tail(parts), charIndex + Len(part))

\* variant of tokenizeWithText that starts charIndex at 1
tokenizeWithText_fromOne(t) == tokensOfParts(splitFrom(t, 0), 1)

\* tokenize with the text of every token
tokenizeWithText(t) == tokensOfParts(splitFrom(t, 0), 0)

\* the parser has not been called
NotParsed ==
  [parsed |-> FALSE, tokens |-> <<>>, ast |-> parseDocument(<<>>),
   pos |-> -1, index |-> -1]

InitParse ==
  /\ text \in ParseTexts
  /\ cursorPosition = Len(text)
  /\ committedSentences = {}
  /\ wordSelection = NoSelection
  /\ sentenceSelection = NoSelection
  /\ ghostRanges = <<>>
  /\ undoStack = <<>>
  /\ redoStack = <<>>
  /\ stamped = FALSE
  /\ last = [op |-> "none", saved |-> "none"]
  /\ clock = [request |-> BATCH_THRESHOLD, capture |-> BATCH_THRESHOLD]
  /\ run = [len |-> 0, snaps |-> 0]
  /\ hist = NotParsed
  /\ steps = 0

\* parseDocument(text)
Parse ==
  /\ ~hist.parsed
  /\ hist' = [parsed |-> TRUE, tokens |-> tokenizeWithText(text),
              ast |-> parseDocument(text), pos |-> -1, index |-> -1]
  /\ last' = [op |-> "parse", saved |-> "none"]
  /\ steps' = steps + 1
  /\ UNCHANGED <<progVars, clock, run>>

\* getSentenceIndexAtPosition(ast, pos) on the parse, for a position of
\* the text
Locate(pos) ==
  /\ hist.parsed /\ hist.pos = -1
  /\ hist' = [hist EXCEPT !.pos = pos,
                          !.index = getSentenceIndexAtPosition(hist.ast, pos)]
  /\ cursorPosition' = pos
  /\ last' = [op |-> "locate", saved |-> "none"]
  /\ steps' = steps + 1
  /\ UNCHANGED <<text, wordSelection, sentenceSelection, committedSentences,
                 ghostRanges, undoStack, redoStack, stamped, clock, run>>

NextParse ==
  \/ Parse
  \/ \E pos \in 0..Len(text) : Locate(pos)

SpecParse == InitParse /\ [][NextParse]_vars

\* the texts of the tokens one after the other
RECURSIVE concatTexts(_)
concatTexts(tokens) ==
  IF tokens = <<>> THEN <<>> ELSE Head(tokens).text \o concatTexts(Tail(tokens))

\* C33: for every input text the tokens returned by the parser have
\* charStart of the first token 0, each next token's charStart equal to the
\* previous token's charEnd, the last charEnd equal to text.length, no
\* empty token, and the concatenation of the token texts equal to the text;
\* word and separator tokens alternate.
C33_TokenPartition ==
  hist.parsed =>
    LET tokens == hist.tokens
        n == Len(tokens)
    IN  /\ n > 0 => tokens[1].charStart = 0 /\ tokens[n].charEnd = Len(text)
        /\ n = 0 => Len(text) = 0
        /\ \A k \in 1..(n - 1) : tokens[k + 1].charStart = tokens[k].charEnd
        /\ \A k \in 1..n : /\ tokens[k].charStart < tokens[k].charEnd
                           /\ tokens[k].text # <<>>
                           /\ Len(tokens[k].text) = tokens[k].charEnd - tokens[k].charStart
        /\ concatTexts(tokens) = text
        /\ \A k \in 1..(n - 1) : tokens[k + 1].type # tokens[k].type

\* the example text was split into its six tokens
C33_Witness ==
  /\ hist.parsed
  /\ text = HelloText
  /\ Len(hist.tokens) = 6


\* the sentences [charStart, charEnd) of a parse
sentenceSpans(a) ==
  [k \in 1..Len(a.sentences) |->
     <<a.sentences[k].charStart, a.sentences[k].charEnd>>]

\* C34 as stated: each sentence closed by a terminator token has charEnd
\* just after the terminal punctuation of that token, so that the
\* characters between its charEnd and the next sentence's charStart are
\* trailing whitespace only, and a run of consecutive terminal punctuation
\* lies entirely inside the sentence it ends; "Hello world. Goodbye."
\* parses to exactly the sentences [0,12) and [13,21).
C34_SentenceEndRule ==
  hist.parsed =>
    LET sentences == hist.ast.sentences
        n == Len(sentences)
    IN  /\ \A k \in 1..(n - 1) :
             /\ sentences[k].charEnd > 0
             /\ At(text, sentences[k].charEnd - 1) \in SENTENCE_END
             /\ \A p \in sentences[k].charEnd..(sentences[k + 1].charStart - 1) :
                  At(text, p) \in WhiteSpace
        /\ text = HelloText => sentenceSpans(hist.ast) = <<<<0, 12>>, <<13, 21>>>>


\* the sentences of the parse and the position a sentence index was asked
\* for
Located == hist.parsed /\ hist.pos >= 0

\* C35 as stated: for every text and every pos in [0, text.length] the
\* result is the index of the sentence whose [charStart, charEnd) contains
\* pos; if pos lies in whitespace after a sentence's charEnd the result is
\* that preceding sentence; if pos >= text.length the result is the last
\* sentence; with no sentences the result is 0.
C35_SentenceIndexAt ==
  Located =>
    LET sentences == hist.ast.sentences
        n == Len(sentences)
        pos == hist.pos
        closedBefore == {k \in 1..n : sentences[k].charEnd <= pos}
        inWhitespaceAfter(k) ==
          /\ k = SetMax(closedBefore)
          /\ \A j \in 1..n : ~(sentences[j].charStart <= pos /\ pos < sentences[j].charEnd)
          /\ \A p \in sentences[k].charEnd..pos : At(text, p) \in WhiteSpace
    IN  /\ \A k \in 1..n :
             (sentences[k].charStart <= pos /\ pos < sentences[k].charEnd)
               => hist.index = k - 1
        /\ \A k \in closedBefore :
             (pos < Len(text) /\ inWhitespaceAfter(k)) => hist.index = k - 1
        /\ (pos >= Len(text) /\ n > 0) => hist.index = n - 1
        /\ n = 0 => hist.index = 0


\* C40 as stated: the sentence index resolved for a position is monotone:
\* for every text and positions p <= q in [0, text.length],
\* getSentenceIndexAtPosition(p) <= getSentenceIndexAtPosition(q), so a
\* position in the blank after the last sentence's closing punctuation never
\* resolves to an earlier sentence.
C40_SentenceIndexMonotone ==
  Located =>
    \A q \in hist.pos..Len(text) :
      hist.index <= getSentenceIndexAtPosition(hist.ast, q)


\* a selection whose two ends are indices of existing units of the parse of
\* the current text
indexValid(sel, unit) ==
  sel # NoSelection =>
    /\ 0 <= sel.start /\ sel.start <= unitCount(unit) - 1
    /\ 0 <= sel.end /\ sel.end <= unitCount(unit) - 1

\* C36 as stated: in every reachable state an active word selection has
\* start and end in [0, wordCount-1] and an active sentence selection has
\* start and end in [0, sentenceCount-1] for the parse of the current text.
C36_SelectionIndexValid ==
  /\ indexValid(wordSelection, "word")
  /\ indexValid(sentenceSelection, "sentence")


\* a selection whose ends are ordered as its direction says
directionConsistent(sel) ==
  /\ sel.direction = "right" => sel.start <= sel.end
  /\ sel.direction = "left" => sel.end <= sel.start

\* C37 as stated: in every reachable state an active selection with
\* direction 'right' has start <= end and one with direction 'left' has
\* end <= start, for word and sentence selections, also after a reorder has
\* updated the sentence selection.
C37_DirectionConsistent ==
  /\ wordSelection # NoSelection => directionConsistent(wordSelection)
  /\ sentenceSelection # NoSelection => directionConsistent(sentenceSelection)


\* a reorder has moved a sentence selection that was taken leftward
C37_Witness ==
  /\ last.op = "reorder" /\ last.saved = "forced"
  /\ sentenceSelection.direction = "left"
  /\ directionConsistent(sentenceSelection)


\* key events of an alternation of reorder-up and reorder-down
MaxTrip == 3

\* documents of two and three sentences, with and without a terminator at
\* the end, separated by a blank, a line break or nothing
RoundTexts ==
  {<<"a", ".", " ", "b">>,
   <<"a", ".", " ", "b", ".">>,
   <<"a", ".", " ", "b", ".", " ", "x", ".">>,
   <<"a", ".", NL, "b", ".", " ", "x">>,
   <<"a", ".", ".", "b", ".">>}

\* sentence selections over n sentences, as the selection commands leave
\* them
selectionsOver(n) ==
  {[start |-> s, end |-> e, direction |-> d] :
     s \in 0..(n - 1), e \in 0..(n - 1), d \in {"left", "right"}}

\* a document with an active sentence selection and any committed set
InitRound ==
  /\ text \in RoundTexts
  /\ cursorPosition = Len(text)
  /\ committedSentences \in SUBSET (0..(Len(ast.sentences) - 1))
  /\ wordSelection = NoSelection
  /\ sentenceSelection \in
       {sel \in selectionsOver(Len(ast.sentences)) :
          IF sel.direction = "right" THEN sel.start <= sel.end
          ELSE sel.end <= sel.start}
  /\ ghostRanges = <<>>
  /\ undoStack = <<>>
  /\ redoStack = <<>>
  /\ stamped = FALSE
  /\ InitObs
  /\ steps = 0

\* ArrowUp on the even key events, ArrowDown on the odd ones
RoundUp == steps < MaxTrip /\ steps % 2 = 0 /\ \E e \in KeyEvents : ReorderUp(e)

RoundDown == steps < MaxTrip /\ steps % 2 = 1 /\ \E e \in KeyEvents : ReorderDown(e)

NextRound == RoundUp \/ RoundDown

SpecRound == InitRound /\ [][NextRound]_vars

\* the snapshot taken by the last forced saveHistory: the state before the
\* last reorder
beforeLast == undoStack[Len(undoStack)]

\* the last key event was a reorder that changed the text
Reordered ==
  /\ last.op = "reorder" /\ last.saved = "forced"
  /\ Len(undoStack) > 0 /\ beforeLast.text # text

\* the selection moved by k sentences
shifted(sel, k) == [sel EXCEPT !.start = @ + k, !.end = @ + k]

\* C38 as stated: a successful reorder-up immediately followed by a
\* reorder-down restores the original text, committed set and sentence
\* selection, and symmetrically down then up; a reorder never changes the
\* text length or the number of sentences.
C38_ReorderRoundTrip ==
  [][KeyStep("reorder") =>
       /\ (Reordered /\ text' # text) =>
            /\ text' = beforeLast.text
            /\ committedSentences' = beforeLast.committedSentences
            /\ sentenceSelection' =
                 shifted(sentenceSelection, IF steps % 2 = 1 THEN 1 ELSE -1)
       /\ Len(text') = Len(text)
       /\ Len(parseDocument(text').sentences) = Len(ast.sentences)]_vars


\* a key event that moves the cursor, starts or extends a selection, or is
\* Escape
SelectsUnit == KeyStep("selectWord") \/ KeyStep("selectSentence")

NonEditing == KeyStep("move") \/ KeyStep("escape") \/ SelectsUnit

\* C39 as stated: cursor movement (character, word, sentence, line,
\* vertical), selection start and extension, and Escape leave the text, the
\* committed set, the ghost ranges, the undo stack and the redo stack
\* unchanged; selection start and extension also leave the cursor unchanged.
C39_NonEditingFrame ==
  [][NonEditing =>
       /\ UNCHANGED <<text, committedSentences, ghostRanges, undoStack, redoStack>>
       /\ SelectsUnit => cursorPosition' = cursorPosition]_vars

\* a cursor movement has been handled in a document with a committed
\* sentence, a ghost range and a snapshot on the undo stack
C39_Witness ==
  /\ last.op = "move"
  /\ committedSentences # {} /\ ghostRanges # <<>> /\ undoStack # <<>>
  /\ Len(text) > 0

=============================================================================
